---- MODULE Spec2Model ----
(***************************************************************************)
(* A model of SimpleHTTP (src/src/simplehttp.hpp): the descriptor handle,   *)
(* the parse buffer, the request parser, the response object and its       *)
(* serializer, the body reader, the routing step and the epoll loop.       *)
(*                                                                         *)
(* A string is a sequence of bytes; a byte is a one-character TLA+ string  *)
(* (the NUL byte is written "NUL").  C++ indices are 0-based: the byte at   *)
(* C++ index i of a string s is s[i+1] here.                               *)
(***************************************************************************)
EXTENDS Integers, Sequences, FiniteSets, TLC

VARIABLES
  uBuffer,     \* buffer harness: the Buffer the operations are applied to
  pInput,      \* parser harness: the whole byte string B
  pRest,       \* parser harness: the bytes of B not yet appended
  pBuffer,     \* parser harness: the parse buffer (internal::Buffer)
  pRequest,    \* parser harness: the Request being filled
  pRaised,     \* parser harness: DeserializeRequest has thrown
  pCalls,      \* parser harness: number of DeserializeRequest calls made
  rResponse,   \* response harness: the Response object
  rBuffer,     \* response harness: the outbound buffer
  rSerialized, \* response harness: the response has been serialized
  rEntries,    \* response harness: the clock's reading at each entry of ProcessResponse
  rCalls,      \* response harness: number of mutator calls made
  handles,     \* descriptor harness: slot -> [state, fd, movedFrom]
  os,          \* descriptor harness: the OS descriptor table
  bReader,     \* body harness: the BodyReader [bodySize, readBuffer]
  bSock,       \* body harness: the bytes waiting in the socket
  bCond,       \* body harness: the connection is "open" or reset ("rst")
  bUnsent,     \* body harness: the body bytes the client has yet to send
  bPc,         \* body harness: "idle", "suspended" (in read) or "failed"
  bSize,       \* body harness: the local `size` of the suspended read
  bReturned,   \* body harness: all bytes the reads have returned, in order
  bLast,       \* body harness: the last finished read [k, before, slice, recvs]
  bEvents,     \* body harness: readiness events the loop handled in stage FUNC (modulo MaxFuncEvents)
  fRouteMap,   \* routing harness: the route table
  fState,      \* routing harness: the ConnectionState
  fCall,       \* routing harness: what the ProcessFunction call did
  coreSocket,  \* Server::coreSocket, the listening descriptor handle
  serveState,  \* where Serve is: "running", "returned", "threw", "spinning"
  conStateMap, \* Serve's conStateMap: descriptor number -> ConnectionState
  conEvents,   \* the events of this loop iteration not yet handled
  kOs,         \* the process's descriptor table
  kListen,     \* the listening socket in the kernel
  kSock,       \* client -> the connection's socket in the kernel
  cPlan,       \* client -> what the client has yet to send
  trace,       \* history: the last handler call, Kill's progress
  setup        \* set-up harness: the constructor and Serve up to its loop

bufVars == <<uBuffer>>

parserVars == <<pInput, pRest, pBuffer, pRequest, pRaised, pCalls>>
respVars == <<rResponse, rBuffer, rSerialized, rCalls, rEntries>>

fdVars == <<handles, os>>

bodyVars ==
  <<bReader, bSock, bCond, bUnsent, bPc, bSize, bReturned, bLast, bEvents>>

routeVars == <<fRouteMap, fState, fCall>>

serverVars ==
  <<coreSocket, serveState, conStateMap, conEvents, kOs, kListen, kSock,
    cPlan, trace>>

setupVars == <<setup>>

vars ==
  <<bufVars, parserVars, respVars, fdVars, bodyVars, routeVars, serverVars,
    setupVars>>

\* What an action of one component leaves unchanged: the other components.
notBuf == <<parserVars, respVars, fdVars, bodyVars, routeVars, serverVars,
  setupVars>>
notParser == <<bufVars, respVars, fdVars, bodyVars, routeVars, serverVars,
  setupVars>>
notResp == <<bufVars, parserVars, fdVars, bodyVars, routeVars, serverVars,
  setupVars>>
notFd == <<bufVars, parserVars, respVars, bodyVars, routeVars, serverVars,
  setupVars>>
notBody == <<bufVars, parserVars, respVars, fdVars, routeVars, serverVars,
  setupVars>>
notRoute == <<bufVars, parserVars, respVars, fdVars, bodyVars, serverVars,
  setupVars>>
notServer ==
  <<bufVars, parserVars, respVars, fdVars, bodyVars, routeVars, setupVars>>
notSetup ==
  <<bufVars, parserVars, respVars, fdVars, bodyVars, routeVars, serverVars>>

(***************************************************************************)
(* String literals of the source.                                          *)
(***************************************************************************)
StrHTTP11 ==
  <<"H","T","T","P","/","1",".","1">>
StrOK ==
  <<"O","K">>
StrBadRequest ==
  <<"B","a","d"," ","R","e","q","u","e","s","t">>
StrNotFound ==
  <<"N","o","t"," ","F","o","u","n","d">>
StrMethodNotAllowed ==
  <<"M","e","t","h","o","d"," ","N","o","t"," ","A","l","l","o","w","e","d">>
StrTextPlain ==
  <<"t","e","x","t","/","p","l","a","i","n">>
StrContentType ==
  <<"C","o","n","t","e","n","t","-","T","y","p","e">>
StrContentLength ==
  <<"C","o","n","t","e","n","t","-","L","e","n","g","t","h">>
StrDate ==
  <<"D","a","t","e">>
StrConnection ==
  <<"C","o","n","n","e","c","t","i","o","n">>
StrClose ==
  <<"c","l","o","s","e">>
StrNotFoundPre ==
  <<"T","h","e"," ","r","e","q","u","e","s","t","e","d"," ","r","e","s","o","u","r","c","e"," ">>
StrNotFoundPost ==
  <<" ","w","a","s"," ","n","o","t"," ","f","o","u","n","d"," ","o","n"," ","t","h","i","s"," ","s","e","r","v","e","r">>
StrMethodPre ==
  <<"T","h","e"," ","m","e","t","h","o","d"," ">>
StrMethodPost ==
  <<" ","i","s"," ","n","o","t"," ","a","l","l","o","w","e","d"," ","f","o","r"," ","t","h","e"," ","r","e","q","u","e","s","t","e","d"," ","r","e","s","o","u","r","c","e">>
StrCRLF ==
  <<"\r","\n">>
StrExpectedSpace ==
  <<"E","x","p","e","c","t","e","d"," ","s","p","a","c","e"," ","(","'"," ","'",")"," ","c","h","a","r","a","c","t","e","r"," ","a","f","t","e","r"," ","c","o","l","o","n"," ","(","'",":","'",")","."," ","G","o","t"," ">>
StrHeaderTooLarge ==
  <<"H","e","a","d","e","r"," ","s","i","z","e"," ","e","x","c","e","e","d","s"," ","d","e","f","i","n","e","d"," ","m","a","x","i","m","u","m"," ","s","i","z","e">>

NUL == "NUL"

\* The code of a byte (char promoted to int by to_string), for the bytes the
\* model's inputs use.
Ord(c) ==
  CASE c = "NUL" -> 0
    [] c = "\n" -> 10
    [] c = "\r" -> 13
    [] c = " " -> 32
    [] c = "." -> 46
    [] c = "/" -> 47
    [] c = "1" -> 49
    [] c = ":" -> 58
    [] c = "A" -> 65
    [] c = "B" -> 66
    [] c = "E" -> 69
    [] c = "G" -> 71
    [] c = "H" -> 72
    [] c = "P" -> 80
    [] c = "T" -> 84
    [] c = "a" -> 97
    [] c = "b" -> 98
    [] c = "c" -> 99
    [] c = "p" -> 112
    [] c = "v" -> 118
    [] c = "x" -> 120
    [] OTHER -> 63

Digit(d) ==
  CASE d = 0 -> "0" [] d = 1 -> "1" [] d = 2 -> "2" [] d = 3 -> "3"
    [] d = 4 -> "4" [] d = 5 -> "5" [] d = 6 -> "6" [] d = 7 -> "7"
    [] d = 8 -> "8" [] OTHER -> "9"

\* std::to_string of a non-negative integer: its decimal digits.
RECURSIVE to_string(_)
to_string(n) ==
  IF n < 10 THEN <<Digit(n)>> ELSE to_string(n \div 10) \o <<Digit(n % 10)>>

\* The bytes of s at the C++ indices from..to (inclusive); empty if to < from.
Slice(s, from, to) == SubSeq(s, from + 1, to + 1)

\* The first C++ index i >= from with s[i] in stops, or -1.
FirstHit(s, from, stops) ==
  LET hits == {i \in from..(Len(s) - 1) : s[i + 1] \in stops}
  IN  IF hits = {} THEN -1 ELSE CHOOSE i \in hits : \A j \in hits : i <= j

\* The C string a char array holds: its bytes before the first NUL.
CStr(bytes) ==
  LET z == FirstHit(bytes, 0, {NUL})
  IN  IF z = -1 THEN bytes ELSE Slice(bytes, 0, z - 1)

(***************************************************************************)
(* internal::Buffer                                                        *)
(***************************************************************************)
NewBuffer == [buffer |-> <<>>, headCursor |-> 0, rollbackCursor |-> 0]

\* operator=(const string&)
BufAssign(b, s) == [buffer |-> s, headCursor |-> 0, rollbackCursor |-> 0]

\* operator+=(const string&): cursors unchanged
BufAppend(b, s) == [b EXCEPT !.buffer = b.buffer \o s]

\* operator+=(const char*): appends the C string, cursors unchanged
BufAppendCStr(b, bytes) == [b EXCEPT !.buffer = b.buffer \o CStr(bytes)]

\* next(): [ok, c, b]; the cursor advances only if the next index is in range
BufNext(b) ==
  LET nextCursor == b.headCursor + 1
  IN  IF nextCursor < Len(b.buffer)
        THEN [ok |-> TRUE, c |-> b.buffer[nextCursor + 1],
              b |-> [b EXCEPT !.headCursor = nextCursor]]
        ELSE [ok |-> FALSE, c |-> NUL, b |-> b]

\* A rollback that leaves the head cursor where the read stopped.
BufRollbackKeepsHead(b) == b

\* rollback(): headCursor = rollbackCursor
BufRollback(b) == [b EXCEPT !.headCursor = b.rollbackCursor]

\* reset(): headCursor = 0
BufReset(b) == [b EXCEPT !.headCursor = 0]

\* set(newpos): [ok, b]; the cursor moves only to an index in range
BufSet(b, newpos) ==
  IF newpos < Len(b.buffer) /\ newpos >= 0
    THEN [ok |-> TRUE, b |-> [b EXCEPT !.headCursor = newpos]]
    ELSE [ok |-> FALSE, b |-> b]

BufCommit(b) == [b EXCEPT !.rollbackCursor = b.headCursor]

\* increment(update): [ok, b]; the cursor moves only to an index in range
BufIncrement(b, update) ==
  LET nextCursor == b.headCursor + update
  IN  IF nextCursor < Len(b.buffer) /\ nextCursor >= 0
        THEN [ok |-> TRUE, b |-> [b EXCEPT !.headCursor = nextCursor]]
        ELSE [ok |-> FALSE, b |-> b]

BufEmpty(b) == b.buffer = <<>>

BufSizeBeforeCursor(b) == b.headCursor

BufSizeAfterCursor(b) == Len(b.buffer) - b.headCursor

(***************************************************************************)
(* Buffer harness: the operations of the Buffer interface applied to a     *)
(* fresh Buffer in any order, with any argument.                           *)
(***************************************************************************)
MaxBufferLen == 5

BufferStrings == {<<>>, <<"a">>, <<"a", "b">>}
CursorArgs == (0 - 2)..(MaxBufferLen + 1)

BufIdle == uBuffer = NewBuffer

BufInit == BufIdle

BufferBecomes(b) ==
  /\ uBuffer' = b
  /\ UNCHANGED notBuf

UAssign == \E s \in BufferStrings : BufferBecomes(BufAssign(uBuffer, s))

UAppend ==
  \E s \in BufferStrings :
    /\ Len(uBuffer.buffer) + Len(s) <= MaxBufferLen
    /\ BufferBecomes(BufAppend(uBuffer, s))

UNext == BufferBecomes(BufNext(uBuffer).b)

URollback == BufferBecomes(BufRollback(uBuffer))

UCommit == BufferBecomes(BufCommit(uBuffer))

UReset == BufferBecomes(BufReset(uBuffer))

USet == \E newpos \in CursorArgs : BufferBecomes(BufSet(uBuffer, newpos).b)

UIncrement ==
  \E update \in CursorArgs : BufferBecomes(BufIncrement(uBuffer, update).b)

BufferNext ==
  \/ UAssign
  \/ UAppend
  \/ UNext
  \/ URollback
  \/ UCommit
  \/ UReset
  \/ USet
  \/ UIncrement

(***************************************************************************)
(* Request                                                                 *)
(***************************************************************************)
NewRequest == [type |-> <<>>, path |-> <<>>, version |-> <<>>, headers |-> <<>>]

\* headers[key] = value on an unordered_map: headers is a function from keys
\* (byte strings) to values.
MapSet(m, key, value) ==
  [k \in (DOMAIN m) \cup {key} |-> IF k = key THEN value ELSE m[k]]

\* Request::getHeader: headers[key], the empty string for a missing key
ReqGetHeader(request, key) ==
  IF key \in DOMAIN request.headers THEN request.headers[key] ELSE <<>>

(***************************************************************************)
(* Server::DeserializeRequest.  Each `while (1) { c = buffer.next(); ... }` *)
(* loop of the source reads the bytes after the head cursor one at a time  *)
(* until a delimiter or the end of the buffer; ScanFrom gives the index    *)
(* where such a loop stops (next() never returns the byte at the cursor    *)
(* itself, so a loop started at cursor h reads indices h+1, h+2, ...).     *)
(***************************************************************************)
ScanFrom(b, stops) == FirstHit(b.buffer, b.headCursor + 1, stops)

StripCR(s) == SelectSeq(s, LAMBDA c : c # "\r")

\* One request-line loop: read until `stop`; on exhaustion roll back.
\* [found, identifier, b]
ReadUntil(b, stop, skipCR) ==
  LET j == ScanFrom(b, {stop})
      raw == Slice(b.buffer, b.headCursor + 1, j - 1)
  IN  IF j = -1
        THEN [found |-> FALSE, identifier |-> <<>>, b |-> BufRollback(b)]
        ELSE [found |-> TRUE,
              identifier |-> IF skipCR THEN StripCR(raw) ELSE raw,
              b |-> BufCommit([b EXCEPT !.headCursor = j])]

ExpectedSpaceError(c) == StrExpectedSpace \o to_string(Ord(c))

\* The header loop (source lines 1667-1721), entered with the local
\* `identifier`.  Bytes other than '\r', '\n' and ':' are read and dropped:
\* the only `identifier += c` of the loop is inside the colon branch, after
\* the value loop, where c is the newline that ended the value.
RECURSIVE ParseHeaders(_, _, _)
ParseHeaders(b, request, identifier) ==
  LET j == ScanFrom(b, {"\n", ":"})
  IN  IF j = -1
        THEN [buffer |-> BufRollback(b), request |-> request,
              raised |-> FALSE, what |-> <<>>]
      ELSE IF b.buffer[j + 1] = "\n"
        THEN [buffer |-> BufCommit([b EXCEPT !.headCursor = j]),
              request |-> request, raised |-> FALSE, what |-> <<>>]
      ELSE
        LET atColon == [b EXCEPT !.headCursor = j]
            n == BufNext(atColon)
        IN  IF ~n.ok
              THEN [buffer |-> BufRollback(atColon), request |-> request,
                    raised |-> FALSE, what |-> <<>>]
            ELSE IF n.c # " "
              THEN [buffer |-> n.b, request |-> request,
                    raised |-> TRUE, what |-> ExpectedSpaceError(n.c)]
            ELSE
              LET k == ScanFrom(n.b, {"\n"})
                  value == StripCR(Slice(b.buffer, j + 2, k - 1))
              IN  IF k = -1
                    THEN [buffer |-> BufRollback(n.b), request |-> request,
                          raised |-> FALSE, what |-> <<>>]
                    ELSE ParseHeaders(
                           BufCommit([b EXCEPT !.headCursor = k]),
                           [request EXCEPT
                              !.headers = MapSet(@, identifier, value)],
                           <<"\n">>)

\* The outcome of a call that returns for want of bytes, or normally.
Returned(buffer, request) ==
  [buffer |-> buffer, request |-> request, raised |-> FALSE, what |-> <<>>]

\* if (request.getVersion().empty()) { ... }, then the header loop;
\* v is the result of the version loop
VersionRead(request, v) ==
  IF ~v.found THEN Returned(v.b, request)
  ELSE ParseHeaders(v.b, [request EXCEPT !.version = v.identifier], <<>>)

ParseVersion(buffer, request) ==
  IF request.version = <<>>
    THEN VersionRead(request, ReadUntil(buffer, "\n", TRUE))
    ELSE ParseHeaders(buffer, request, <<>>)

\* if (request.getPath().empty()) { ... }; p is the result of the path loop
PathRead(request, p) ==
  IF ~p.found THEN Returned(p.b, request)
  ELSE ParseVersion(p.b, [request EXCEPT !.path = p.identifier])

ParsePath(buffer, request) ==
  IF request.path = <<>>
    THEN PathRead(request, ReadUntil(buffer, " ", FALSE))
    ELSE ParseVersion(buffer, request)

\* if (request.getType().empty()) { ... }; t is the result of the type loop
TypeRead(request, t) ==
  IF ~t.found THEN Returned(t.b, request)
  ELSE ParsePath(t.b, [request EXCEPT !.type = t.identifier])

\* [buffer, request, raised, what]
DeserializeRequest(buffer, request) ==
  IF request.type = <<>>
    THEN TypeRead(request, ReadUntil(buffer, " ", FALSE))
    ELSE ParsePath(buffer, request)

(***************************************************************************)
(* Parser harness: a byte string B is appended to a fresh parse buffer in   *)
(* chunks, the way ProcessRequest does (reqBuffer += chunk, then           *)
(* DeserializeRequest), any split of B being possible.                     *)
(***************************************************************************)
ReqTwoHeaders ==
  <<"G","E","T"," ","/","p"," ","H","T","T","P","/","1",".","1","\r","\n","A",":"," ","b","\r","\n","B",":"," ","c","\r","\n","\r","\n">>
ReqNoSpace ==
  <<"G","E","T"," ","/","p"," ","H","T","T","P","/","1",".","1","\r","\n","A",":","b","\r","\n","\r","\n">>
ReqNoHeaders ==
  <<"G","E","T"," ","/","x"," ","H","T","T","P","/","1",".","1","\r","\n","\r","\n">>
ReqEmptyMethod ==
  <<"G"," ","/","p"," ","H","\n","A",":"," ","b","\n","\n">>

ParserInputs == {ReqTwoHeaders, ReqNoSpace, ReqNoHeaders, ReqEmptyMethod}

ParserIdle ==
  /\ pInput = <<>>
  /\ pRest = <<>>
  /\ pBuffer = NewBuffer
  /\ pRequest = NewRequest
  /\ pRaised = FALSE
  /\ pCalls = 0

ParserInit ==
  /\ pInput \in ParserInputs
  /\ pRest = pInput
  /\ pBuffer = NewBuffer
  /\ pRequest = NewRequest
  /\ pRaised = FALSE
  /\ pCalls = 0

\* reqBuffer += chunk; DeserializeRequest(reqBuffer, request)
ParseAppended(buffer, request, chunk) ==
  DeserializeRequest(BufAppendCStr(buffer, chunk), request)

\* The next k bytes of B arrive and the parser is called.
FeedChunk(k) ==
  /\ ~pRaised
  /\ k \in 1..Len(pRest)
  /\ LET r == ParseAppended(pBuffer, pRequest, SubSeq(pRest, 1, k))
     IN  /\ pBuffer' = r.buffer
         /\ pRequest' = r.request
         /\ pRaised' = r.raised
  /\ pRest' = SubSeq(pRest, k + 1, Len(pRest))
  /\ pCalls' = pCalls + 1
  /\ pInput' = pInput
  /\ UNCHANGED notParser

ParserNext == \E k \in 1..Len(pRest) : FeedChunk(k)

(***************************************************************************)
(* Response                                                                *)
(***************************************************************************)
NewResponse ==
  [version |-> StrHTTP11, statusCode |-> 200, statusReason |-> StrOK,
   headers |-> <<>>, body |-> <<>>]

SetStatusCode(response, newstatuscode) ==
  [response EXCEPT !.statusCode = newstatuscode]

SetStatusReason(response, newstatusreason) ==
  [response EXCEPT !.statusReason = newstatusreason]

SetHeader(response, key, newvalue) ==
  [response EXCEPT !.headers = MapSet(@, key, newvalue)]

SetContentType(response, newcontenttype) ==
  SetHeader(response, StrContentType, newcontenttype)

\* setDate: the Date header is set to the IMF-fixdate text of the time point;
\* the text is the clock's input here.
SetDate(response, datetext) == SetHeader(response, StrDate, datetext)

SetBody(response, newbody) ==
  [response EXCEPT
     !.body = newbody,
     !.headers = MapSet(@, StrContentLength, to_string(Len(newbody)))]

AppendBody(response, appendbody) ==
  [response EXCEPT
     !.body = @ \o appendbody,
     !.headers = MapSet(@, StrContentLength,
                        to_string(Len(response.body \o appendbody)))]

(***************************************************************************)
(* Server::SerializeResponse.  The headers are written in the iteration    *)
(* order of the unordered_map, which the language leaves unspecified:      *)
(* `order` is that order, a sequence holding every header key once.        *)
(***************************************************************************)
HeaderOrders(headers) ==
  {o \in [1..Cardinality(DOMAIN headers) -> DOMAIN headers] :
     \A i, j \in DOMAIN o : i # j => o[i] # o[j]}

RECURSIVE HeaderLinesKeepsEmpty(_, _)
HeaderLinesKeepsEmpty(headers, order) ==
  IF order = <<>> THEN <<>>
  ELSE Head(order) \o <<":", " ">> \o headers[Head(order)] \o StrCRLF
         \o HeaderLinesKeepsEmpty(headers, Tail(order))

RECURSIVE HeaderLines(_, _)
HeaderLines(headers, order) ==
  IF order = <<>> THEN <<>>
  ELSE LET key == Head(order)
           line == IF headers[key] = <<>> THEN <<>>
                   ELSE key \o <<":", " ">> \o headers[key] \o StrCRLF
       IN  line \o HeaderLines(headers, Tail(order))

SerializeResponse(response, buffer, order) ==
  LET statusLine == response.version \o <<" ">>
                      \o to_string(response.statusCode) \o <<" ">>
                      \o response.statusReason \o StrCRLF
      b1 == BufAssign(buffer, statusLine)
      b2 == BufAppend(b1, HeaderLines(response.headers, order))
  IN  BufAppend(b2, StrCRLF \o response.body)

(***************************************************************************)
(* Response harness: any sequence of mutator calls on a fresh Response,    *)
(* then the first entry of ProcessResponse (setDate, SerializeResponse).   *)
(***************************************************************************)
MaxCalls == 3

DateText ==
  <<"T","h","u",","," ","0","5"," ","N","o","v"," ","2","0","2","6"," ","0","1",":","4","8",":","0","0"," ","G","M","T">>

LaterDateText ==
  <<"T","h","u",","," ","0","5"," ","N","o","v"," ","2","0","2","6"," ","0","1",":","4","8",":","0","1"," ","G","M","T">>

ClockTexts == {DateText, LaterDateText}

MaxEntries == 2

RespBodies == {<<>>, <<"a">>, <<"p","o","n","g">>}
RespKeys == {StrContentLength, <<"X">>}
RespValues == {<<>>, <<"7">>}

RespIdle ==
  /\ rResponse = NewResponse
  /\ rBuffer = NewBuffer
  /\ rSerialized = FALSE
  /\ rCalls = 0
  /\ rEntries = <<>>

RespInit == RespIdle

RespCall(new) ==
  /\ ~rSerialized
  /\ rCalls < MaxCalls
  /\ rResponse' = new
  /\ rCalls' = rCalls + 1
  /\ UNCHANGED <<rBuffer, rSerialized, rEntries>>
  /\ UNCHANGED notResp

RSetBody == \E s \in RespBodies : RespCall(SetBody(rResponse, s))

RAppendBody == \E s \in RespBodies : RespCall(AppendBody(rResponse, s))

RSetHeader ==
  \E k \in RespKeys, v \in RespValues : RespCall(SetHeader(rResponse, k, v))

RSetContentType == RespCall(SetContentType(rResponse, StrTextPlain))

RSetStatusCode == \E c \in {200, 400} : RespCall(SetStatusCode(rResponse, c))

RSetStatusReason ==
  \E t \in {StrOK, StrBadRequest} : RespCall(SetStatusReason(rResponse, t))

\* The head of ProcessResponse, at each entry: with an empty resBuffer stamp
\* the date and serialize, otherwise leave response and buffer as they are.
\* now is the clock's reading at this entry.
RSerialize ==
  /\ Len(rEntries) < MaxEntries
  /\ \E now \in ClockTexts :
       /\ rEntries' = Append(rEntries, now)
       /\ IF BufEmpty(rBuffer)
            THEN \E order \in HeaderOrders(SetDate(rResponse, now).headers) :
                   /\ rResponse' = SetDate(rResponse, now)
                   /\ rBuffer' =
                        SerializeResponse(SetDate(rResponse, now), rBuffer, order)
            ELSE UNCHANGED <<rResponse, rBuffer>>
  /\ rSerialized' = TRUE
  /\ UNCHANGED rCalls
  /\ UNCHANGED notResp

RespNext ==
  \/ RSetBody
  \/ RAppendBody
  \/ RSetHeader
  \/ RSetContentType
  \/ RSetStatusCode
  \/ RSetStatusReason
  \/ RSerialize

(***************************************************************************)
(* internal::FileDescriptor.  A handle is its descriptor number; each       *)
(* operation gives the new handle values and the arguments of the close()  *)
(* calls it makes, in order.                                               *)
(***************************************************************************)
InvalidFd == -1

\* A move constructor that copies the number and leaves `other` as it was.
FdMoveConstructKeepsOther(other) ==
  [self |-> other, other |-> other, closes |-> <<>>]

\* FileDescriptor(FileDescriptor&& other): fd = other.fd.exchange(-1)
FdMoveConstruct(other) ==
  [self |-> other, other |-> InvalidFd, closes |-> <<>>]

\* operator=(FileDescriptor&& other), this != &other
FdMoveAssign(self, other) ==
  LET newfd == other
      oldfd == self
  IN  [self |-> newfd, other |-> InvalidFd,
       closes |-> IF oldfd # newfd THEN <<oldfd>> ELSE <<>>]

\* A destructor that leaves the descriptor open.
FdDestroyKeepsOpen(self) == [closes |-> <<>>]

\* ~FileDescriptor(): close(fd)
FdDestroy(self) == [closes |-> <<self>>]

\* A closefd that closes and keeps the number.
FdClosefdKeepsNumber(self) == [self |-> self, closes |-> <<self>>]

\* closefd(): close(fd); fd = -1
FdClosefd(self) == [self |-> InvalidFd, closes |-> <<self>>]

(***************************************************************************)
(* The OS descriptor table.  open maps each open descriptor number to the  *)
(* descriptor it names (descriptors are numbered in order of creation, a   *)
(* number is reused after close); closed counts the close() calls that     *)
(* closed each descriptor; ebadf counts the close() calls on a number      *)
(* >= 0 that named no open descriptor.                                     *)
(***************************************************************************)
NewOs == [open |-> <<>>, made |-> 0, closed |-> <<>>, ebadf |-> 0]

\* The lowest descriptor number not in use (0, 1, 2 are the standard streams).
LowestFree(o) ==
  CHOOSE n \in 3..(3 + Cardinality(DOMAIN o.open)) :
    /\ n \notin DOMAIN o.open
    /\ \A m \in 3..(n - 1) : m \in DOMAIN o.open

\* socket(), accept(), epoll_create1() succeeding: a new descriptor
OsOpen(o) ==
  LET n == LowestFree(o)
      d == o.made + 1
  IN  [o EXCEPT !.open = [k \in (DOMAIN o.open) \cup {n} |->
                            IF k = n THEN d ELSE o.open[k]],
                !.made = d,
                !.closed = [k \in 1..d |-> IF k = d THEN 0 ELSE o.closed[k]]]

\* close(n)
OsClose(o, n) ==
  IF n \in DOMAIN o.open
    THEN [o EXCEPT !.open = [k \in (DOMAIN o.open) \ {n} |-> o.open[k]],
                   !.closed[o.open[n]] = @ + 1]
  ELSE IF n >= 0 THEN [o EXCEPT !.ebadf = @ + 1]
  ELSE o

RECURSIVE OsCloseAll(_, _)
OsCloseAll(o, closes) ==
  IF closes = <<>> THEN o
  ELSE OsCloseAll(OsClose(o, Head(closes)), Tail(closes))

(***************************************************************************)
(* Descriptor harness: handle objects are constructed from the result of a *)
(* descriptor-creating system call (a new descriptor, or -1 on failure, as *)
(* every construction in the source is), moved, closed and destroyed in    *)
(* any order.                                                              *)
(***************************************************************************)
MaxHandles == 3
MaxFds == 3

Slots == 1..MaxHandles

NoHandle == [state |-> "none", fd |-> InvalidFd, movedFrom |-> FALSE]

FdIdle ==
  /\ handles = [h \in Slots |-> NoHandle]
  /\ os = NewOs

FdInit == FdIdle

Live(h) == handles[h].state = "live"

\* FileDescriptor(socket(...)) with the call succeeding
HConstruct(h) ==
  /\ handles[h].state = "none"
  /\ os.made < MaxFds
  /\ os' = OsOpen(os)
  /\ handles' = [handles EXCEPT
       ![h] = [state |-> "live", fd |-> LowestFree(os), movedFrom |-> FALSE]]
  /\ UNCHANGED notFd

\* FileDescriptor() and FileDescriptor(socket(...)) with the call failing
HConstructInvalid(h) ==
  /\ handles[h].state = "none"
  /\ handles' = [handles EXCEPT
       ![h] = [state |-> "live", fd |-> InvalidFd, movedFrom |-> FALSE]]
  /\ UNCHANGED os
  /\ UNCHANGED notFd

HMoveConstruct(h, other) ==
  /\ handles[h].state = "none"
  /\ Live(other)
  /\ LET r == FdMoveConstruct(handles[other].fd)
     IN  /\ handles' = [handles EXCEPT
               ![h] = [state |-> "live", fd |-> r.self, movedFrom |-> FALSE],
               ![other] = [@ EXCEPT !.fd = r.other, !.movedFrom = TRUE]]
         /\ os' = OsCloseAll(os, r.closes)
  /\ UNCHANGED notFd

HMoveAssign(h, other) ==
  /\ Live(h)
  /\ Live(other)
  /\ h # other
  /\ LET r == FdMoveAssign(handles[h].fd, handles[other].fd)
     IN  /\ handles' = [handles EXCEPT
               ![h] = [@ EXCEPT !.fd = r.self, !.movedFrom = FALSE],
               ![other] = [@ EXCEPT !.fd = r.other, !.movedFrom = TRUE]]
         /\ os' = OsCloseAll(os, r.closes)
  /\ UNCHANGED notFd

HClosefd(h) ==
  /\ Live(h)
  /\ LET r == FdClosefd(handles[h].fd)
     IN  /\ handles' = [handles EXCEPT ![h] = [@ EXCEPT !.fd = r.self]]
         /\ os' = OsCloseAll(os, r.closes)
  /\ UNCHANGED notFd

HDestroy(h) ==
  /\ Live(h)
  /\ LET r == FdDestroy(handles[h].fd)
     IN  /\ handles' = [handles EXCEPT ![h] = [@ EXCEPT !.state = "dead"]]
         /\ os' = OsCloseAll(os, r.closes)
  /\ UNCHANGED notFd

FdNext ==
  \/ \E h \in Slots : HConstruct(h)
  \/ \E h \in Slots : HConstructInvalid(h)
  \/ \E h, other \in Slots : HMoveConstruct(h, other)
  \/ \E h, other \in Slots : HMoveAssign(h, other)
  \/ \E h \in Slots : HClosefd(h)
  \/ \E h \in Slots : HDestroy(h)

(***************************************************************************)
(* BodyReader::read, a coroutine.  ReadLoop runs the `while (1)` loop from *)
(* its top until the coroutine returns or suspends; recvs counts the recv  *)
(* calls made.  The receive of a socket with no byte waiting fails with    *)
(* EAGAIN.                                                                 *)
(***************************************************************************)
Min(a, b) == IF a < b THEN a ELSE b

\* readBuffer.size() >= size compares a size_t with an int: a negative size is
\* converted to a huge unsigned value.
SizeAtLeast(len, size) == size >= 0 /\ len >= size

RECURSIVE ReadLoop(_, _, _, _, _)
ReadLoop(reader, size, sock, socketBufferSize, recvs) ==
  IF reader.bodySize <= 0
    THEN [outcome |-> "return", slice |-> <<>>, reader |-> reader,
          sock |-> sock, recvs |-> recvs]
  ELSE IF SizeAtLeast(Len(reader.readBuffer), size)
    THEN [outcome |-> "return",
          slice |-> SubSeq(reader.readBuffer, 1, size),
          reader |-> [bodySize |-> reader.bodySize - size,
                      readBuffer |-> SubSeq(reader.readBuffer, size + 1,
                                            Len(reader.readBuffer))],
          sock |-> sock, recvs |-> recvs]
  ELSE IF sock = <<>>
    THEN [outcome |-> "suspend", slice |-> <<>>, reader |-> reader,
          sock |-> sock, recvs |-> recvs + 1]
  ELSE LET n == Min(Len(sock), socketBufferSize)
       IN  ReadLoop([reader EXCEPT
                       !.readBuffer = @ \o SubSeq(sock, 1, n)],
                    size, SubSeq(sock, n + 1, Len(sock)),
                    socketBufferSize, recvs + 1)

\* read(size): the clamp, then the loop
BodyRead(reader, size, sock, socketBufferSize) ==
  ReadLoop(reader, IF size > reader.bodySize THEN reader.bodySize ELSE size,
           sock, socketBufferSize, 0)

\* The coroutine resumed after `co_await BasicResumer{}`: control reaches
\* readBuffer.insert(readBuffer.end(), buffer, buffer + n) with n = -1, an
\* invalid range (undefined behaviour).  A build either throws from insert
\* (libstdc++: length_error) or inserts nothing (libc++); then the loop goes
\* on from its top.
ResumeOutcomes == {"throws", "inserts nothing"}

\* A resumption whose insert adds a byte of the receive array to the cache.
BodyResumeInsertsGarbage(reader, size, sock, socketBufferSize, ub) ==
  ReadLoop([reader EXCEPT !.readBuffer = @ \o <<"?">>],
           size, sock, socketBufferSize, 0)

BodyResume(reader, size, sock, socketBufferSize, ub) ==
  IF ub = "throws"
    THEN [outcome |-> "throw", slice |-> <<>>, reader |-> reader,
          sock |-> sock, recvs |-> 0]
    ELSE ReadLoop(reader, size, sock, socketBufferSize, 0)

\* The same run over a connection that has been reset: nothing waits in the
\* socket, and where a recv would have failed with EAGAIN it fails with
\* another error.  The else branch is `throw;` with no exception being
\* handled, which calls std::terminate.
RecvError(r) ==
  IF r.outcome = "suspend" THEN [r EXCEPT !.outcome = "terminate"] ELSE r

BodyReadReset(reader, size, socketBufferSize) ==
  RecvError(BodyRead(reader, size, <<>>, socketBufferSize))

BodyResumeReset(reader, size, socketBufferSize, ub) ==
  RecvError(BodyResume(reader, size, <<>>, socketBufferSize, ub))

\* The same run over a connection whose peer has shut down: the bytes waiting
\* in the socket are still received, and where a recv would have failed with
\* EAGAIN it returns 0.  The insert of line 887 then adds nothing and the loop
\* starts over with nothing changed: bodySize > 0, the cache too short, recv
\* returning 0 again, without end.
RecvEof(r) ==
  IF r.outcome = "suspend" THEN [r EXCEPT !.outcome = "spin"] ELSE r

BodyReadEof(reader, size, sock, socketBufferSize) ==
  RecvEof(BodyRead(reader, size, sock, socketBufferSize))

BodyResumeEof(reader, size, sock, socketBufferSize, ub) ==
  RecvEof(BodyResume(reader, size, sock, socketBufferSize, ub))

(***************************************************************************)
(* Body harness: a reader created with bodySize = Len(Body) over a socket  *)
(* to which the client delivers the bytes of Body in any segmentation; the *)
(* handler calls read(k) for any k; a suspended read is resumed once bytes *)
(* are waiting.                                                            *)
(***************************************************************************)
ReaderBufferSize == 3

Body == <<"1", "2", "3", "4">>

ReadSizes == {0, 1, 2, 3, 5}

NoRead == [k |-> 0, before |-> 0, slice |-> <<>>, recvs |-> 0, done |-> FALSE]

BodyIdle ==
  /\ bReader = [bodySize |-> 0, readBuffer |-> <<>>]
  /\ bSock = <<>>
  /\ bCond = "open"
  /\ bUnsent = <<>>
  /\ bPc = "idle"
  /\ bSize = 0
  /\ bReturned = <<>>
  /\ bLast = NoRead
  /\ bEvents = 0

BodyInit ==
  /\ bReader = [bodySize |-> Len(Body), readBuffer |-> <<>>]
  /\ bSock = <<>>
  /\ bCond = "open"
  /\ bUnsent = Body
  /\ bPc = "idle"
  /\ bSize = 0
  /\ bReturned = <<>>
  /\ bLast = NoRead
  /\ bEvents = 0

\* The first bytes of the next request on the same connection.
Following == <<"G", "E">>

\* The client sends the body and, right behind it, the next request.
BodyInitPipelined ==
  /\ bReader = [bodySize |-> Len(Body), readBuffer |-> <<>>]
  /\ bSock = <<>>
  /\ bCond = "open"
  /\ bUnsent = Body \o Following
  /\ bPc = "idle"
  /\ bSize = 0
  /\ bReturned = <<>>
  /\ bLast = NoRead
  /\ bEvents = 0

\* The client's next k body bytes arrive at the socket.
Deliver(k) ==
  /\ bCond = "open"
  /\ k \in 1..Len(bUnsent)
  /\ bSock' = bSock \o SubSeq(bUnsent, 1, k)
  /\ bUnsent' = SubSeq(bUnsent, k + 1, Len(bUnsent))
  /\ UNCHANGED <<bReader, bCond, bPc, bSize, bReturned, bLast, bEvents>>
  /\ UNCHANGED notBody

\* The connection is reset: the bytes waiting in the socket are discarded.
Reset ==
  /\ bCond = "open"
  /\ bPc \in {"idle", "suspended"}
  /\ bCond' = "rst"
  /\ bSock' = <<>>
  /\ UNCHANGED <<bReader, bUnsent, bPc, bSize, bReturned, bLast, bEvents>>
  /\ UNCHANGED notBody

\* The client shuts down its side (FIN): what has arrived stays readable, no
\* further byte will arrive.
Fin ==
  /\ bCond = "open"
  /\ bPc \in {"idle", "suspended"}
  /\ bCond' = "fin"
  /\ UNCHANGED <<bReader, bSock, bUnsent, bPc, bSize, bReturned, bLast, bEvents>>
  /\ UNCHANGED notBody

\* What a run of the coroutine (r) leaves behind; k and before belong to the
\* read call the run is part of.
AfterRun(r, k, before, size) ==
  /\ bReader' = r.reader
  /\ bSock' = r.sock
  /\ bPc' = CASE r.outcome = "return" -> "idle"
              [] r.outcome = "suspend" -> "suspended"
              [] r.outcome = "terminate" -> "terminated"
              [] r.outcome = "spin" -> "spinning"
              [] OTHER -> "failed"
  /\ bSize' = IF r.outcome = "suspend" THEN size ELSE 0
  /\ bReturned' = bReturned \o r.slice
  /\ bLast' = [k |-> k, before |-> before, slice |-> r.slice,
               recvs |-> r.recvs, done |-> r.outcome = "return"]
  /\ UNCHANGED <<bUnsent, bCond, bEvents>>
  /\ UNCHANGED notBody

\* The handler calls read(k).
ReadCall(k) ==
  /\ bPc = "idle"
  /\ AfterRun(IF bCond = "rst"
                THEN BodyReadReset(bReader, k, ReaderBufferSize)
              ELSE IF bCond = "fin"
                THEN BodyReadEof(bReader, k, bSock, ReaderBufferSize)
                ELSE BodyRead(bReader, k, bSock, ReaderBufferSize),
              k, bReader.bodySize, Min(k, bReader.bodySize))

\* The loop resumes the suspended read on readable readiness.
ResumeRead(ub) ==
  /\ bPc = "suspended"
  /\ bSock # <<>> \/ bCond \in {"rst", "fin"}
  /\ AfterRun(IF bCond = "rst"
                THEN BodyResumeReset(bReader, bSize, ReaderBufferSize, ub)
              ELSE IF bCond = "fin"
                THEN BodyResumeEof(bReader, bSize, bSock, ReaderBufferSize, ub)
                ELSE BodyResume(bReader, bSize, bSock, ReaderBufferSize, ub),
              bLast.k, bLast.before, bSize)

\* Serve, case Stage::FUNC, for a readiness event of the connection whose
\* handler is suspended: break. Nothing of the connection changes; the loop
\* goes on to its next event.
MaxFuncEvents == 2

FuncStage ==
  /\ bPc = "suspended"
  /\ bCond = "open"
  /\ bSock # <<>>
  /\ bEvents' = (bEvents + 1) % MaxFuncEvents
  /\ UNCHANGED <<bReader, bSock, bCond, bUnsent, bPc, bSize, bReturned, bLast>>
  /\ UNCHANGED notBody

\* The body reader under the loop as it is written: no statement of the
\* library calls Task::resume or resumes the handle BasicResumer stored.
SuspendNext ==
  \/ \E k \in 1..Len(bUnsent) : Deliver(k)
  \/ Reset
  \/ \E k \in ReadSizes : ReadCall(k)
  \/ FuncStage

\* The body reader over a connection the client may shut down early.
EofNext ==
  \/ \E k \in 1..Len(bUnsent) : Deliver(k)
  \/ Fin
  \/ Reset
  \/ \E k \in ReadSizes : ReadCall(k)
  \/ \E ub \in ResumeOutcomes : ResumeRead(ub)

BodyNext ==
  \/ \E k \in 1..Len(bUnsent) : Deliver(k)
  \/ Reset
  \/ \E k \in ReadSizes : ReadCall(k)
  \/ \E ub \in ResumeOutcomes : ResumeRead(ub)


(***************************************************************************)
(* internal::ConnectionState and internal::Stage                           *)
(***************************************************************************)
REQ == "REQ"
FUNC == "FUNC"
RES == "RES"

\* ConnectionState{.fd = fd, .stage = Stage::REQ}
NewConnectionState(fd) ==
  [fd |-> fd, stage |-> REQ, reqBuffer |-> NewBuffer, resBuffer |-> NewBuffer,
   request |-> NewRequest, response |-> NewResponse]

\* state.response.setStatusCode(code).setStatusReason(reason)
\*   .setContentType("text/plain").setBody(body); state.stage = RES
ErrorReply(state, code, reason, body) ==
  [state EXCEPT
     !.response = SetBody(SetContentType(SetStatusReason(
                    SetStatusCode(@, code), reason), StrTextPlain), body),
     !.stage = RES]

(***************************************************************************)
(* Server::ProcessFunction.  routeMap maps a path to a map from method to  *)
(* handler.  When the path lookup fails the code goes on to dereference    *)
(* the end iterator (routeIter->second): undefined behaviour, whose        *)
(* outcome is `ub`: the process crashes, or the bytes read as the inner    *)
(* map answer the method lookup with "found" or "not found"; in the last   *)
(* case the call goes through handlerIter of a failed lookup.              *)
(* [outcome, ret, state, invoked, endDeref]                                *)
(***************************************************************************)
NoHandler == <<>>
GarbageHandler == <<"garbage">>
EndDerefOutcomes == {"crash", "found", "not found"}

\* What the handler named h writes into the Response it is given: a status,
\* a header and a body.
HandlerWrites(h, response) ==
  SetBody(SetHeader(SetStatusCode(response, 201), <<"X">>, <<"7">>),
          <<"p", "o", "n", "g">>)

\* handlerIter->second(state.request, state.response): the handler's type is
\* function<void(Request, Response)>, so it is given copies; what it writes
\* goes into its copy, which ends with the call.
CallHandler(state, h) ==
  LET copy == HandlerWrites(h, state.response)
  IN  state

ProcessFunction(state, routeMap, ub) ==
  LET path == state.request.path
      type == state.request.type
  IN  IF path \in DOMAIN routeMap
        THEN [outcome |-> "returned", ret |-> TRUE,
              state |-> ErrorReply(state, 404, StrNotFound,
                          StrNotFoundPre \o path \o StrNotFoundPost),
              invoked |-> NoHandler, endDeref |-> FALSE]
      ELSE IF ub = "crash"
        THEN [outcome |-> "crashed", ret |-> FALSE, state |-> state,
              invoked |-> NoHandler, endDeref |-> TRUE]
      ELSE IF ub = "found"
        THEN [outcome |-> "returned", ret |-> TRUE,
              state |-> ErrorReply(state, 405, StrMethodNotAllowed,
                          StrMethodPre \o type \o StrMethodPost),
              invoked |-> NoHandler, endDeref |-> TRUE]
      ELSE [outcome |-> "returned", ret |-> TRUE,
            state |-> CallHandler(state, GarbageHandler),
            invoked |-> GarbageHandler, endDeref |-> TRUE]

(***************************************************************************)
(* Routing harness: a route table, a parsed request in a connection at     *)
(* stage FUNC, one ProcessFunction call.                                   *)
(***************************************************************************)
RoutePaths == {<<"/", "a">>, <<"/", "b">>}
RouteMethods == {<<"G", "E", "T">>, <<"P", "O", "S", "T">>}
RequestPaths == RoutePaths \cup {<<"/", "c">>}
RequestMethods == RouteMethods \cup {<<"P", "U", "T">>}

\* The handler registered for (path, method) is named by the pair.
InnerMaps(path) == {[m \in M |-> <<path, m>>] : M \in SUBSET RouteMethods}

RouteTables ==
  UNION {{f \in [P -> UNION {InnerMaps(p) : p \in P}] :
            \A p \in P : f[p] \in InnerMaps(p)} : P \in SUBSET RoutePaths}

NoCall ==
  [done |-> FALSE, outcome |-> "none", ret |-> FALSE,
   invoked |-> NoHandler, endDeref |-> FALSE]

RouteIdle ==
  /\ fRouteMap = <<>>
  /\ fState = NewConnectionState(InvalidFd)
  /\ fCall = NoCall

RouteInit ==
  /\ fRouteMap \in RouteTables
  /\ fState = NewConnectionState(LowestFree(NewOs))
  /\ fCall = NoCall

\* A request has been parsed: the connection is at the routing stage.
FReceive(path, type) ==
  /\ fState.stage = REQ
  /\ fState' = [fState EXCEPT !.request.type = type, !.request.path = path,
                              !.request.version = StrHTTP11, !.stage = FUNC]
  /\ UNCHANGED <<fRouteMap, fCall>>
  /\ UNCHANGED notRoute

FProcess(ub) ==
  /\ fState.stage = FUNC
  /\ ~fCall.done
  /\ LET r == ProcessFunction(fState, fRouteMap, ub)
     IN  /\ fState' = r.state
         /\ fCall' = [done |-> TRUE, outcome |-> r.outcome, ret |-> r.ret,
                      invoked |-> r.invoked, endDeref |-> r.endDeref]
  /\ UNCHANGED fRouteMap
  /\ UNCHANGED notRoute

RouteNext ==
  \/ \E path \in RequestPaths, type \in RequestMethods : FReceive(path, type)
  \/ \E ub \in EndDerefOutcomes : FProcess(ub)


(***************************************************************************)
(* Server: its constants, and the kernel objects Serve works on.           *)
(***************************************************************************)
sockBufferSize == 8192
maxEventsPerLoop == 12
maxHeaderSize == 8192

EPOLLIN == "EPOLLIN"
EPOLLOUT == "EPOLLOUT"
EPOLLERR == "EPOLLERR"
EPOLLHUP == "EPOLLHUP"

\* All orders in which the elements of a finite set can be listed.
Orderings(S) ==
  {o \in [1..Cardinality(S) -> S] : \A i, j \in DOMAIN o : i # j => o[i] # o[j]}

(***************************************************************************)
(* A connection's socket as the kernel holds it.  cond: "idle" (the client *)
(* has not connected), "open", "fin" (the client has shut down its side),  *)
(* "rst" (the connection was reset), "closed" (the server closed it).      *)
(* rx: bytes received and not yet read by recv.  sent: every byte send has *)
(* accepted, in order; read: how many of them the client has read; space:  *)
(* the size of the send buffer.                                            *)
(***************************************************************************)
NewSocket(space) ==
  [fd |-> InvalidFd, cond |-> "idle", rx |-> <<>>, sent |-> <<>>,
   read |-> 0, reads |-> 0, space |-> space]

TxFree(sock) == sock.space - (Len(sock.sent) - sock.read)

\* recv(fd, buffer, size, 0) on a non-blocking socket: [n, again, bytes, sock]
\* n = -1 with again for EAGAIN, n = -1 without for any other error.
Recv(sock, size) ==
  IF sock.cond = "rst"
    THEN [n |-> -1, again |-> FALSE, bytes |-> <<>>, sock |-> sock]
  ELSE IF sock.rx = <<>>
    THEN IF sock.cond = "fin"
           THEN [n |-> 0, again |-> FALSE, bytes |-> <<>>, sock |-> sock]
           ELSE [n |-> -1, again |-> TRUE, bytes |-> <<>>, sock |-> sock]
  ELSE LET n == Min(Len(sock.rx), size)
       IN  [n |-> n, again |-> FALSE, bytes |-> SubSeq(sock.rx, 1, n),
            sock |-> [sock EXCEPT !.rx = SubSeq(@, n + 1, Len(@))]]

\* send(fd, bytes, len, 0) on a non-blocking socket: [n, again, sock]
SendTo(sock, bytes) ==
  IF sock.cond = "rst"
    THEN [n |-> -1, again |-> FALSE, sock |-> sock]
  ELSE IF TxFree(sock) = 0
    THEN [n |-> -1, again |-> TRUE, sock |-> sock]
  ELSE LET n == Min(Len(bytes), TxFree(sock))
       IN  [n |-> n, again |-> FALSE,
            sock |-> [sock EXCEPT !.sent = @ \o SubSeq(bytes, 1, n)]]

\* The events epoll reports for a connection registered with EPOLLIN|EPOLLOUT
\* (level-triggered; EPOLLERR and EPOLLHUP are always reported).
SockEvents(sock) ==
  (IF sock.rx # <<>> \/ sock.cond \in {"fin", "rst"} THEN {EPOLLIN} ELSE {})
    \cup (IF TxFree(sock) > 0 \/ sock.cond = "rst" THEN {EPOLLOUT} ELSE {})
    \cup (IF sock.cond = "rst" THEN {EPOLLERR, EPOLLHUP} ELSE {})

(***************************************************************************)
(* Server::ProcessRequest                                                  *)
(***************************************************************************)
\* A catch branch that fills the response and leaves the stage as it was.
BadRequestKeepsStage(state, what) ==
  [ErrorReply(state, 400, StrBadRequest, what) EXCEPT !.stage = state.stage]

\* catch (exception &e): 400, "Bad Request", text/plain, e.what(); stage RES
BadRequest(state, what) == ErrorReply(state, 400, StrBadRequest, what)

\* [ret, spins, state, sock, raised, what]: ret is the value returned; spins
\* says the loop never returns (recv keeps returning 0 and nothing changes).
RequestFailed(state, sock, what) ==
  [ret |-> TRUE, spins |-> FALSE, state |-> BadRequest(state, what),
   sock |-> sock, raised |-> TRUE, what |-> what]

RECURSIVE ProcessRequest(_, _)

\* The try block and what follows it; r is what recv gave, p what
\* DeserializeRequest gave.
Deserialized(state, sock, r, p) ==
  IF p.raised
    THEN RequestFailed([state EXCEPT !.reqBuffer = p.buffer,
                                     !.request = p.request], r.sock, p.what)
  ELSE IF BufSizeBeforeCursor(p.buffer) > maxHeaderSize
    THEN RequestFailed([state EXCEPT !.reqBuffer = p.buffer,
                                     !.request = p.request],
                       r.sock, StrHeaderTooLarge)
  ELSE IF r.n = 0 /\ p.buffer = state.reqBuffer /\ p.request = state.request
    THEN [ret |-> TRUE, spins |-> TRUE, state |-> state,
          sock |-> sock, raised |-> FALSE, what |-> <<>>]
  ELSE ProcessRequest([state EXCEPT !.reqBuffer = p.buffer,
                                    !.request = p.request], r.sock)

\* One pass of the loop after recv; r is what recv gave.
Received(state, sock, r) ==
  IF r.n < 0
    THEN [ret |-> r.again, spins |-> FALSE, state |-> state,
          sock |-> sock, raised |-> FALSE, what |-> <<>>]
    ELSE Deserialized(state, sock, r,
                      ParseAppended(state.reqBuffer, state.request, r.bytes))

ProcessRequest(state, sock) == Received(state, sock, Recv(sock, sockBufferSize))

(***************************************************************************)
(* Server::ProcessResponse                                                 *)
(***************************************************************************)
\* state = ConnectionState{.fd = std::move(state.fd), .stage = REQ}:
\* [state, closes]
ResetState(state) ==
  LET t == FdMoveConstruct(state.fd)
      a == FdMoveAssign(t.other, t.self)
  IN  [state |-> NewConnectionState(a.self),
       closes |-> t.closes \o a.closes \o FdDestroy(a.other).closes]

\* q copies of bytes, one after another.
Copies(bytes, q) ==
  [i \in 1..(q * Len(bytes)) |-> bytes[((i - 1) % Len(bytes)) + 1]]

\* The iterations of the send loop that follow one whose increment() left the
\* cursor where it was: each sends the same bytes again, and is followed by
\* another like it as long as the send buffer has room for all of them.
SendAgain(sock, bytes) ==
  [sock EXCEPT !.sent = @ \o Copies(bytes, TxFree(sock) \div Len(bytes))]

\* The send loop: [ret, state, sock, closes, acceptedLast]; acceptedLast says
\* some send of this call took the bytes up to the end of the buffer.
RECURSIVE SendLoop(_, _, _)
SendLoop(state, sock, acceptedLast) ==
  LET b == state.resBuffer
      rest == Slice(b.buffer, b.headCursor, Len(b.buffer) - 1)
      r == SendTo(sock, rest)
  IN  IF r.n < 0
        THEN [ret |-> r.again, state |-> state, sock |-> sock,
              closes |-> <<>>, acceptedLast |-> acceptedLast]
      ELSE
        LET inc == BufIncrement(b, r.n)
            sentTo == [state EXCEPT !.resBuffer = inc.b]
            last == acceptedLast \/ b.headCursor + r.n = Len(b.buffer)
        IN  IF BufSizeAfterCursor(inc.b) < 1
              THEN IF ReqGetHeader(state.request, StrConnection) = StrClose
                     THEN [ret |-> FALSE, state |-> sentTo, sock |-> r.sock,
                           closes |-> <<>>, acceptedLast |-> last]
                     ELSE [ret |-> TRUE, state |-> ResetState(sentTo).state,
                           sock |-> r.sock,
                           closes |-> ResetState(sentTo).closes,
                           acceptedLast |-> last]
            ELSE IF ~inc.ok
              THEN SendLoop(state, SendAgain(r.sock, rest), last)
            ELSE SendLoop(sentTo, r.sock, last)

\* datetext is the clock's reading, order the header order of the map.
ProcessResponse(state, sock, datetext, order) ==
  LET dated == SetDate(state.response, datetext)
      serialized ==
        [state EXCEPT !.response = dated,
                      !.resBuffer = SerializeResponse(dated, @, order)]
  IN  SendLoop(IF BufEmpty(state.resBuffer) THEN serialized ELSE state,
               sock, FALSE)

(***************************************************************************)
(* The clients and what they send.                                         *)
(***************************************************************************)
\* The clients of a run: those the kernel has a socket for.
Clients == DOMAIN kSock

SmallSendSpace == 100
LargeSendSpace == 400
MaxReads == 2

ReqCloseNoSpace ==
  <<"G","E","T"," ","/","p"," ","H","T","T","P","/","1",".","1","\r","\n","C","o","n","n","e","c","t","i","o","n",":"," ","c","l","o","s","e","\r","\n","A",":","b","\r","\n","\r","\n">>

LargePrefix ==
  <<"G","E","T"," ","/","p"," ","H","T","T","P","/","1",".","1","\r","\n","A",":"," ">>

\* A well-formed request whose header block is n bytes long.
LargeRequest(n) ==
  LargePrefix \o [i \in 1..(n - Len(LargePrefix) - 4) |-> "a"]
    \o StrCRLF \o StrCRLF

\* A plan: the segments the client sends, how many well-formed requests of
\* ordinary size they make, the length of the (first) header block.
Plans ==
  {[name |-> "keep-alive", segments |-> <<ReqTwoHeaders, ReqTwoHeaders>>,
    requests |-> 2, blockLen |-> Len(ReqTwoHeaders)],
   [name |-> "split",
    segments |-> <<SubSeq(ReqNoHeaders, 1, 9),
                   SubSeq(ReqNoHeaders, 10, Len(ReqNoHeaders))>>,
    requests |-> 1, blockLen |-> Len(ReqNoHeaders)],
   [name |-> "no space", segments |-> <<ReqNoSpace, <<"x">>>>,
    requests |-> 0, blockLen |-> Len(ReqNoSpace)],
   [name |-> "close", segments |-> <<ReqCloseNoSpace, <<"x">>>>,
    requests |-> 0, blockLen |-> Len(ReqCloseNoSpace)]}
  \cup {[name |-> "large", segments |-> <<LargeRequest(n)>>,
         requests |-> 0, blockLen |-> n] :
          n \in (maxHeaderSize - 1)..(maxHeaderSize + 2)}

(***************************************************************************)
(* Server::Serve and Server::Kill.  The model starts with Serve in its     *)
(* loop: the listening socket and the epoll instance exist, the listening  *)
(* socket is registered, the connection map is empty.                      *)
(***************************************************************************)
\* stage, received: the stage of an erased connection and the number of
\* request bytes it had received.
NoServerCall ==
  [op |-> "none", fd |-> InvalidFd, ret |-> TRUE, raised |-> FALSE,
   what |-> <<>>, acceptedLast |-> FALSE, close |-> FALSE,
   stage |-> "none", received |-> 0]

MaxKills == 2

\* kill: the progress of the Kill call under way or last made; kills: the
\* Kill calls that have returned; exit: what Serve held when it was left.
NewTrace ==
  [lastCall |-> NoServerCall, kill |-> "no", kills |-> 0,
   batch |-> [afterKill |-> FALSE, hangup |-> FALSE],
   hangupIterationEnded |-> FALSE,
   exit |-> [left |-> FALSE, held |-> {}], destroyed |-> FALSE]

ServerIdle ==
  /\ coreSocket = InvalidFd
  /\ serveState = "idle"
  /\ conStateMap = <<>>
  /\ conEvents = <<>>
  /\ kOs = NewOs
  /\ kListen = [number |-> InvalidFd, epoll |-> InvalidFd, open |-> FALSE,
                backlog |-> <<>>, fault |-> {}]
  /\ kSock = <<>>
  /\ cPlan = <<>>
  /\ trace = NewTrace

\* Serve in its loop, with the given clients, send-buffer sizes and plans.
ServerStart(clients, spaces, plans) ==
  /\ coreSocket = LowestFree(NewOs)
  /\ serveState = "running"
  /\ conStateMap = <<>>
  /\ conEvents = <<>>
  /\ kOs = OsOpen(OsOpen(NewOs))
  /\ kListen = [number |-> LowestFree(NewOs),
                epoll |-> LowestFree(OsOpen(NewOs)),
                open |-> TRUE, backlog |-> <<>>, fault |-> {}]
  /\ kSock \in [clients -> {NewSocket(space) : space \in spaces}]
  /\ cPlan \in [clients -> plans]
  /\ trace = NewTrace

ServerInit ==
  ServerStart({"c1"}, {SmallSendSpace, LargeSendSpace}, Plans)

\* The plans that end in a few steps: a request in two parts, a bad request.
ShortPlans == {p \in Plans : p.name \in {"split", "no space"}}

\* One client with a short plan.
LifeInit == ServerStart({"c1"}, {SmallSendSpace}, ShortPlans)

\* The first part of a request and nothing more.
PartialPlan ==
  [name |-> "partial", segments |-> <<SubSeq(ReqNoHeaders, 1, 9)>>,
   requests |-> 0, blockLen |-> Len(ReqNoHeaders)]

\* Two clients: one sends part of a header block, the other a bad request.
PairInit ==
  /\ ServerStart({"c1", "c2"}, {SmallSendSpace}, ShortPlans \cup {PartialPlan})
  /\ cPlan["c1"].name = "partial"
  /\ cPlan["c2"].name = "no space"

\* Streams that never complete what the parser is reading: a method with no
\* space, a header line with no colon and no newline, a header value with no
\* newline; each goes on for FloodSegments segments of one receive chunk.
FloodSegments == 3

Filler(n) == [i \in 1..n |-> "a"]

FloodStarts ==
  {<<>>, SubSeq(ReqNoHeaders, 1, 17),
   SubSeq(ReqNoHeaders, 1, 17) \o <<"A", ":", " ">>}

FloodPlans ==
  {[name |-> "flood",
    segments |-> [i \in 1..FloodSegments |->
                    IF i = 1 THEN start \o Filler(sockBufferSize - Len(start))
                             ELSE Filler(sockBufferSize)],
    requests |-> 0, blockLen |-> FloodSegments * sockBufferSize] :
      start \in FloodStarts}
    \cup {p \in Plans : p.name = "no space"}

\* One client that sends a stream without end, or a bad request.
FloodInit == ServerStart({"c1"}, {SmallSendSpace}, FloodPlans)


ClientOf(fd) == CHOOSE c \in Clients : kSock[c].fd = fd

\* What epoll_wait can report.
ReadyEvents ==
  {[fd |-> kSock[c].fd, events |-> SockEvents(kSock[c])] :
     c \in {d \in Clients :
              kSock[d].fd # InvalidFd /\ SockEvents(kSock[d]) # {}}}
    \cup (IF kListen.open /\ (kListen.backlog # <<>> \/ kListen.fault # {})
            THEN {[fd |-> kListen.number,
                   events |-> (IF kListen.backlog # <<>> THEN {EPOLLIN}
                               ELSE {}) \cup kListen.fault]}
            ELSE {})

\* Once the listening descriptor is closed the kernel may report a hangup
\* for its number.
HangupEvents ==
  IF kListen.open THEN {}
  ELSE {[fd |-> kListen.number, events |-> {EPOLLHUP}]}

Batches ==
  UNION {Orderings(E) :
           E \in {F \in SUBSET (ReadyEvents \cup HangupEvents) :
                    /\ F # {}
                    /\ Cardinality(F) <= maxEventsPerLoop
                    /\ \/ ReadyEvents \subseteq F
                       \/ Cardinality(F) = maxEventsPerLoop}}

\* The trace after an event has been handled by `call`.
Handled(call) ==
  [trace EXCEPT
     !.lastCall = call,
     !.hangupIterationEnded =
        @ \/ (Len(conEvents) = 1 /\ trace.batch.afterKill
                /\ trace.batch.hangup)]

\* int n = epoll_wait(...): the events of one loop iteration
EpollWait(batch) ==
  /\ serveState = "running"
  /\ conEvents = <<>>
  /\ conEvents' = batch
  /\ trace' = [trace EXCEPT
                 !.batch = [afterKill |-> trace.kills >= 1,
                            hangup |-> \E i \in DOMAIN batch :
                                         batch[i] \in HangupEvents]]
  /\ UNCHANGED <<coreSocket, serveState, conStateMap, kOs, kListen, kSock,
                 cPlan>>
  /\ UNCHANGED notServer

\* A Serve whose connection map holds plain descriptor numbers: leaving it
\* closes the epoll descriptor only.
LeaveKeepsConnections(how) ==
  /\ serveState' = how
  /\ conStateMap' = <<>>
  /\ conEvents' = <<>>
  /\ kOs' = OsCloseAll(kOs, <<kListen.epoll>>)
  /\ kSock' = kSock
  /\ trace' = [Handled(NoServerCall) EXCEPT
                  !.exit = [left |-> TRUE, held |-> DOMAIN conStateMap]]
  /\ UNCHANGED <<coreSocket, kListen, cPlan>>

\* Serve is left by return or throw: the connection map and the epoll handle
\* are destroyed.
Leave(how) ==
  LET fds == CHOOSE o \in Orderings(DOMAIN conStateMap) : TRUE
      closes == [i \in DOMAIN fds |-> conStateMap[fds[i]].fd]
  IN  /\ serveState' = how
      /\ conStateMap' = <<>>
      /\ conEvents' = <<>>
      /\ kOs' = OsCloseAll(kOs, closes \o <<kListen.epoll>>)
      /\ kSock' = [c \in Clients |->
                     IF kSock[c].fd \in DOMAIN conStateMap
                       THEN [kSock[c] EXCEPT !.fd = InvalidFd,
                                             !.cond = "closed"]
                       ELSE kSock[c]]
      /\ trace' = [Handled(NoServerCall) EXCEPT
                      !.exit = [left |-> TRUE, held |-> DOMAIN conStateMap]]
      /\ UNCHANGED <<coreSocket, kListen, cPlan>>

\* epoll_wait fails (n < 0, as when a signal interrupts it): Serve throws
EpollWaitFails ==
  /\ serveState = "running"
  /\ conEvents = <<>>
  /\ Leave("threw")
  /\ UNCHANGED notServer

\* conStateMap[fd] = ConnectionState{.fd = std::move(conSocket), .stage = REQ}
\* and the destruction of conSocket: [state, closes]
\* An insert that leaves the descriptor in the local conSocket, which closes
\* it at the end of the scope.
MoveIntoMapKeepsLocal(conSocket) ==
  [state |-> NewConnectionState(InvalidFd),
   closes |-> FdDestroy(conSocket).closes]

MoveIntoMap(conSocket) ==
  LET t == FdMoveConstruct(conSocket)
      a == FdMoveAssign(InvalidFd, t.self)
  IN  [state |-> NewConnectionState(a.self),
       closes |-> t.closes \o a.closes \o FdDestroy(a.other).closes
                    \o FdDestroy(t.other).closes]

\* What accept and EPOLL_CTL_ADD can give: "ok" is the healthy kernel (accept
\* gives a queued connection or EAGAIN, the registration succeeds), "accept
\* fails" is accept returning -1 for another reason (EMFILE, ECONNABORTED),
\* "ctl fails" is epoll_ctl returning -1 (ENOMEM, ENOSPC).
SysResults == {"ok", "accept fails", "ctl fails"}

\* accept(coreSocket.getfd(), ...) and what follows; the trace keeps what
\* accept returned (fd) and whether the registration succeeded (ret).
Accept(sys) ==
  IF /\ kListen.open /\ kListen.number = coreSocket /\ kListen.backlog # <<>>
     /\ sys # "accept fails"
    THEN LET c == Head(kListen.backlog)
             conSocket == LowestFree(kOs)
             m == MoveIntoMap(conSocket)
         IN  /\ kListen' = [kListen EXCEPT !.backlog = Tail(@)]
             /\ IF conSocket > 0 /\ sys = "ok"
                  THEN /\ conStateMap' = MapSet(conStateMap, conSocket, m.state)
                       /\ kOs' = OsCloseAll(OsOpen(kOs), m.closes)
                       /\ kSock' = [kSock EXCEPT ![c].fd = conSocket]
                  ELSE /\ conStateMap' = conStateMap
                       /\ kOs' = OsCloseAll(OsOpen(kOs),
                                            FdDestroy(conSocket).closes)
                       /\ kSock' = [kSock EXCEPT ![c].cond = "closed"]
             /\ trace' = Handled([NoServerCall EXCEPT
                                    !.op = "accept", !.fd = conSocket,
                                    !.ret = (conSocket > 0 /\ sys = "ok")])
    ELSE /\ kOs' = OsCloseAll(kOs, FdDestroy(InvalidFd).closes)
         /\ trace' = Handled([NoServerCall EXCEPT
                                !.op = "accept", !.ret = FALSE])
         /\ UNCHANGED <<kListen, kSock, conStateMap>>

\* An event whose data.fd equals coreSocket.getfd()
HandleCoreEvent(sys) ==
  /\ serveState = "running"
  /\ conEvents # <<>>
  /\ Head(conEvents).fd = coreSocket
  /\ IF EPOLLERR \in Head(conEvents).events THEN Leave("threw")
     ELSE IF EPOLLHUP \in Head(conEvents).events THEN Leave("returned")
     ELSE /\ Accept(sys)
          /\ conEvents' = Tail(conEvents)
          /\ UNCHANGED <<coreSocket, serveState, cPlan>>
  /\ UNCHANGED notServer

\* An erase that removes the entry and leaves its descriptor open.
EraseLeaksDescriptor(fd, sock) ==
  /\ conStateMap' = [k \in (DOMAIN conStateMap) \ {fd} |-> conStateMap[k]]
  /\ kOs' = kOs
  /\ kSock' = [kSock EXCEPT ![ClientOf(fd)] = sock]

\* conStateMap.erase(conStateIter): the state is destroyed, its descriptor
\* closed; `sock` is the socket as the handler left it.
Erase(fd, sock) ==
  /\ conStateMap' = [k \in (DOMAIN conStateMap) \ {fd} |-> conStateMap[k]]
  /\ kOs' = OsCloseAll(kOs, FdDestroy(conStateMap[fd].fd).closes)
  /\ kSock' = [kSock EXCEPT ![ClientOf(fd)] =
                 [sock EXCEPT !.fd = InvalidFd, !.cond = "closed"]]

\* The header orders a ProcessResponse call for the event can meet.
SerializationOrders(e) ==
  IF /\ e.fd \in DOMAIN conStateMap
     /\ e.events \cap {EPOLLERR, EPOLLHUP} = {}
     /\ conStateMap[e.fd].stage = RES
     /\ EPOLLIN \in e.events
     /\ BufEmpty(conStateMap[e.fd].resBuffer)
    THEN HeaderOrders(SetDate(conStateMap[e.fd].response, DateText).headers)
    ELSE {<<>>}

\* case Stage::REQ with EPOLLIN; r is what ProcessRequest gave
RequestStage(e, r) ==
  /\ IF r.spins
       THEN /\ serveState' = "spinning"
            /\ UNCHANGED <<conStateMap, kOs, kSock>>
     ELSE IF ~r.ret
       THEN /\ Erase(e.fd, r.sock)
            /\ UNCHANGED serveState
     ELSE /\ conStateMap' = [conStateMap EXCEPT ![e.fd] = r.state]
          /\ kSock' = [kSock EXCEPT ![ClientOf(e.fd)] = r.sock]
          /\ UNCHANGED <<serveState, kOs>>
  /\ trace' = Handled([NoServerCall EXCEPT
                         !.op = "ProcessRequest", !.fd = e.fd,
                         !.ret = r.ret, !.raised = r.raised,
                         !.what = r.what])

\* A RES clause that puts the connection back to REQ whenever ProcessResponse
\* returns true, sent or not.
ResponseStageResets(e, r) ==
  /\ IF ~r.ret
       THEN Erase(e.fd, r.sock)
       ELSE /\ conStateMap' = [conStateMap EXCEPT
                                 ![e.fd] = [r.state EXCEPT !.stage = REQ]]
            /\ kSock' = [kSock EXCEPT ![ClientOf(e.fd)] = r.sock]
            /\ kOs' = OsCloseAll(kOs, r.closes)
  /\ UNCHANGED serveState
  /\ trace' = Handled([NoServerCall EXCEPT
                         !.op = "ProcessResponse", !.fd = e.fd,
                         !.ret = r.ret, !.acceptedLast = r.acceptedLast,
                         !.close = ReqGetHeader(
                            conStateMap[e.fd].request, StrConnection)
                            = StrClose])

\* case Stage::RES with EPOLLIN; r is what ProcessResponse gave
ResponseStage(e, r) ==
  /\ IF ~r.ret
       THEN Erase(e.fd, r.sock)
       ELSE /\ conStateMap' = [conStateMap EXCEPT ![e.fd] = r.state]
            /\ kSock' = [kSock EXCEPT ![ClientOf(e.fd)] = r.sock]
            /\ kOs' = OsCloseAll(kOs, r.closes)
  /\ UNCHANGED serveState
  /\ trace' = Handled([NoServerCall EXCEPT
                         !.op = "ProcessResponse", !.fd = e.fd,
                         !.ret = r.ret, !.acceptedLast = r.acceptedLast,
                         !.close = ReqGetHeader(
                            conStateMap[e.fd].request, StrConnection)
                            = StrClose])

Skip ==
  /\ trace' = Handled(NoServerCall)
  /\ UNCHANGED <<serveState, conStateMap, kOs, kSock>>

\* An event whose data.fd differs from coreSocket.getfd()
HandleConEvent(order) ==
  /\ serveState = "running"
  /\ conEvents # <<>>
  /\ Head(conEvents).fd # coreSocket
  /\ order \in SerializationOrders(Head(conEvents))
  /\ LET e == Head(conEvents)
     IN  IF e.fd \notin DOMAIN conStateMap
           THEN Skip
         ELSE IF e.events \cap {EPOLLERR, EPOLLHUP} # {}
           THEN /\ Erase(e.fd, kSock[ClientOf(e.fd)])
                /\ trace' = Handled([NoServerCall EXCEPT
                     !.op = "erase", !.fd = e.fd,
                     !.stage = conStateMap[e.fd].stage,
                     !.received = Len(conStateMap[e.fd].reqBuffer.buffer)])
                /\ UNCHANGED serveState
         ELSE IF conStateMap[e.fd].stage = REQ /\ EPOLLIN \in e.events
           THEN RequestStage(e, ProcessRequest(conStateMap[e.fd],
                                               kSock[ClientOf(e.fd)]))
         ELSE IF conStateMap[e.fd].stage = RES /\ EPOLLIN \in e.events
           THEN ResponseStage(e, ProcessResponse(conStateMap[e.fd],
                                                 kSock[ClientOf(e.fd)],
                                                 DateText, order))
         ELSE Skip
  /\ conEvents' = Tail(conEvents)
  /\ UNCHANGED <<coreSocket, kListen, cPlan>>
  /\ UNCHANGED notServer

\* Kill(): coreSocket.closefd(), first half: close(fd)
\* close(n) seen from the listening socket: closing its number closes it and
\* resets the connections waiting in its queue.
CloseListener(n) ==
  IF kListen.open /\ n = kListen.number
    THEN /\ kListen' = [kListen EXCEPT !.open = FALSE, !.backlog = <<>>]
         /\ kSock' = [c \in Clients |->
                        IF \E i \in DOMAIN kListen.backlog :
                             kListen.backlog[i] = c
                          THEN [kSock[c] EXCEPT !.cond = "closed"]
                          ELSE kSock[c]]
    ELSE UNCHANGED <<kListen, kSock>>

\* closefd() up to and including close(fd)
KillBegins ==
  /\ kOs' = OsCloseAll(kOs, FdClosefd(coreSocket).closes)
  /\ CloseListener(coreSocket)
  /\ trace' = [trace EXCEPT !.kill = "closing"]

\* The first Kill call, made while Serve runs.
KillClose ==
  /\ serveState = "running"
  /\ trace.kill = "no"
  /\ KillBegins
  /\ UNCHANGED <<coreSocket, serveState, conStateMap, conEvents, cPlan>>
  /\ UNCHANGED notServer

\* Kill(): coreSocket.closefd(), second half: fd = -1
KillInvalidate ==
  /\ trace.kill = "closing"
  /\ coreSocket' = FdClosefd(coreSocket).self
  /\ trace' = [trace EXCEPT !.kill = "done", !.kills = @ + 1]
  /\ UNCHANGED <<serveState, conStateMap, conEvents, kOs, kListen, kSock,
                 cPlan>>
  /\ UNCHANGED notServer

\* A Kill call that follows another, or is made once Serve has been left.
KillLater ==
  /\ trace.kill # "closing"
  /\ trace.kills >= 1 \/ serveState # "running"
  /\ trace.kills < MaxKills
  /\ ~trace.destroyed
  /\ KillBegins
  /\ UNCHANGED <<coreSocket, serveState, conStateMap, conEvents, cPlan>>
  /\ UNCHANGED notServer

\* The Server object is destroyed once Serve has been left: ~FileDescriptor
\* of coreSocket.
DestroyServer ==
  /\ serveState \in {"returned", "threw"}
  /\ trace.kill # "closing"
  /\ ~trace.destroyed
  /\ kOs' = OsCloseAll(kOs, FdDestroy(coreSocket).closes)
  /\ CloseListener(coreSocket)
  /\ trace' = [trace EXCEPT !.destroyed = TRUE]
  /\ UNCHANGED <<coreSocket, serveState, conStateMap, conEvents, cPlan>>
  /\ UNCHANGED notServer

\* The kernel flags an error on the listening socket.
ListenFault(events) ==
  /\ serveState = "running"
  /\ kListen.open
  /\ kListen.fault = {}
  /\ kListen' = [kListen EXCEPT !.fault = events]
  /\ UNCHANGED <<coreSocket, serveState, conStateMap, conEvents, kOs, kSock,
                 cPlan, trace>>
  /\ UNCHANGED notServer

\* The client connects: the connection waits in the listen queue.
ClientConnect(c) ==
  /\ kSock[c].cond = "idle"
  /\ kListen.open
  /\ kSock' = [kSock EXCEPT ![c].cond = "open"]
  /\ kListen' = [kListen EXCEPT !.backlog = Append(@, c)]
  /\ UNCHANGED <<coreSocket, serveState, conStateMap, conEvents, kOs, cPlan,
                 trace>>
  /\ UNCHANGED notServer

\* The next segment of the plan arrives at the server's socket.
ClientSend(c) ==
  /\ kSock[c].cond = "open"
  /\ cPlan[c].segments # <<>>
  /\ kSock' = [kSock EXCEPT ![c].rx = @ \o Head(cPlan[c].segments)]
  /\ cPlan' = [cPlan EXCEPT ![c].segments = Tail(@)]
  /\ UNCHANGED <<coreSocket, serveState, conStateMap, conEvents, kOs, kListen,
                 trace>>
  /\ UNCHANGED notServer

\* The client reads what the server has sent: the send buffer empties.
ClientRead(c) ==
  /\ kSock[c].cond = "open"
  /\ kSock[c].read < Len(kSock[c].sent)
  /\ kSock[c].reads < MaxReads
  /\ kSock' = [kSock EXCEPT ![c].read = Len(kSock[c].sent),
                            ![c].reads = @ + 1]
  /\ UNCHANGED <<coreSocket, serveState, conStateMap, conEvents, kOs, kListen,
                 cPlan, trace>>
  /\ UNCHANGED notServer

\* The client shuts down its side (FIN) or the connection is reset (RST).
ClientClose(c, how) ==
  /\ kSock[c].cond = "open"
  /\ kSock[c].fd # InvalidFd
  /\ kSock' = [kSock EXCEPT ![c].cond = how,
                            ![c].rx = IF how = "rst" THEN <<>> ELSE @]
  /\ UNCHANGED <<coreSocket, serveState, conStateMap, conEvents, kOs, kListen,
                 cPlan, trace>>
  /\ UNCHANGED notServer

Next ==
  \/ \E batch \in Batches : EpollWait(batch)
  \/ HandleCoreEvent("ok")
  \/ \E order \in UNION {SerializationOrders(e) : e \in
                           {conEvents[i] : i \in DOMAIN conEvents}} :
       HandleConEvent(order)
  \/ KillClose
  \/ KillInvalidate
  \/ \E c \in Clients : ClientConnect(c)
  \/ \E c \in Clients : ClientSend(c)
  \/ \E c \in Clients : ClientRead(c)
  \/ \E c \in Clients, how \in {"fin", "rst"} : ClientClose(c, how)

\* The loop and the clients, Kill never called.
NextPair ==
  \/ \E batch \in Batches : EpollWait(batch)
  \/ HandleCoreEvent("ok")
  \/ \E order \in UNION {SerializationOrders(e) : e \in
                           {conEvents[i] : i \in DOMAIN conEvents}} :
       HandleConEvent(order)
  \/ \E c \in Clients : ClientConnect(c)
  \/ \E c \in Clients : ClientSend(c)
  \/ \E c \in Clients : ClientRead(c)
  \/ \E c \in Clients, how \in {"fin", "rst"} : ClientClose(c, how)

\* The loop and the clients of NextPair, with every result accept and the
\* registration can have.
NextAccept ==
  \/ \E batch \in Batches : EpollWait(batch)
  \/ \E sys \in SysResults : HandleCoreEvent(sys)
  \/ \E order \in UNION {SerializationOrders(e) : e \in
                           {conEvents[i] : i \in DOMAIN conEvents}} :
       HandleConEvent(order)
  \/ \E c \in Clients : ClientConnect(c)
  \/ \E c \in Clients : ClientSend(c)
  \/ \E c \in Clients : ClientRead(c)
  \/ \E c \in Clients, how \in {"fin", "rst"} : ClientClose(c, how)

\* The loop with what can end it: a failing epoll_wait, a fault of the
\* listening socket, further Kill calls, the destruction of the Server.
NextLife ==
  \/ Next
  \/ EpollWaitFails
  \/ \E events \in {{EPOLLERR}, {EPOLLERR, EPOLLHUP}} : ListenFault(events)
  \/ KillLater
  \/ DestroyServer

(***************************************************************************)
(* Set-up: the two constructors of Server and the part of Serve before its *)
(* loop.  Each is a list of system calls, each followed by the test the    *)
(* source makes and the throw the test guards.  A call's result is the     *)
(* value it returns: -1 when it fails.                                     *)
(***************************************************************************)
O_RDWR == 2
O_NONBLOCK == 2048

\* Server(string unixSockPath)
CtorUnix == <<"socket", "bind", "F_GETFL", "F_SETFL">>

\* Server(string ipAddr, u_int16_t port)
CtorInet ==
  <<"inet_pton", "socket", "SO_REUSEADDR", "SO_RCVBUF", "SO_SNDBUF", "bind",
    "F_GETFL", "F_SETFL">>

\* Serve() before while (1)
ServeSetup == <<"listen", "epoll_create1", "epoll_ctl">>

\* The values a call can return.
Returns(name) ==
  CASE name = "inet_pton" -> {1, 0, -1}
    [] name = "socket" -> {3, -1}
    [] name = "epoll_create1" -> {4, -1}
    [] name = "F_GETFL" -> {O_RDWR, -1}
    [] OTHER -> {0, -1}

\* sockFlags | O_NONBLOCK, for the values sockFlags can have here
WithNonblock(sockFlags) ==
  IF sockFlags = -1 THEN -1 ELSE sockFlags + O_NONBLOCK

MaxServes == 3

\* phase: "ctor", "constructed", "serve", "loop" (Serve is in its loop) or
\* "threw"; calls: the system calls the constructor or the Serve call under
\* way (or last made) has made, with what each returned;
\* error: the exception that left the constructor or Serve; by: who threw.
NewSetup(ctor) ==
  [ctor |-> ctor, phase |-> "ctor", todo |-> ctor, res |-> 0,
   sockFlags |-> 0, core |-> InvalidFd, epoll |-> InvalidFd,
   calls |-> <<>>, error |-> "none", by |-> "none", serves |-> 0]

\* throw runtime_error(...) / logic_error(...) out of the running function
Throw(s, error) ==
  [s EXCEPT !.phase = "threw", !.error = error,
            !.by = IF s.phase = "ctor" THEN "constructor" ELSE "Serve",
            !.todo = <<>>,
            !.epoll = InvalidFd,
            !.core = IF s.phase = "ctor" THEN InvalidFd ELSE @]

\* The statement after the test: the next call, or the end of the set-up.
Passed(s) ==
  IF s.todo # <<>> THEN s
  ELSE [s EXCEPT !.phase = IF s.phase = "ctor" THEN "constructed" ELSE "loop"]

\* One system call of the list, the assignment of its result and the test
\* that follows it.  v is what the call returns.
SysCall(s, name, v) ==
  LET called == [s EXCEPT !.calls = Append(@, [name |-> name, value |-> v]),
                          !.todo = Tail(@)]
  IN  CASE name = "inet_pton" ->
             IF v = 0 THEN Throw([called EXCEPT !.res = v], "logic_error")
             ELSE IF v = -1
               THEN Throw([called EXCEPT !.res = v], "runtime_error")
             ELSE Passed([called EXCEPT !.res = v])
        [] name = "socket" ->
             IF v < 0 THEN Throw([called EXCEPT !.core = v], "runtime_error")
             ELSE Passed([called EXCEPT !.core = v])
        [] name = "epoll_create1" ->
             IF v < 0 THEN Throw([called EXCEPT !.epoll = v], "runtime_error")
             ELSE Passed([called EXCEPT !.epoll = v])
        [] name = "F_GETFL" ->
             IF called.res < 0
               THEN Throw([called EXCEPT !.sockFlags = v], "runtime_error")
               ELSE Passed([called EXCEPT !.sockFlags = WithNonblock(v)])
        [] OTHER ->
             IF v < 0 THEN Throw([called EXCEPT !.res = v], "runtime_error")
             ELSE Passed([called EXCEPT !.res = v])

SetupIdle == setup = NewSetup(<<>>)

SetupInit == setup \in {NewSetup(CtorUnix), NewSetup(CtorInet)}

\* The next system call of the constructor or of Serve returns v.
SetupCall(v) ==
  /\ setup.todo # <<>>
  /\ v \in Returns(Head(setup.todo))
  /\ setup' = SysCall(setup, Head(setup.todo), v)
  /\ UNCHANGED notSetup

\* Serve() is called on the constructed Server, or again after it threw.
ServeCalled ==
  /\ \/ setup.phase = "constructed"
     \/ setup.phase = "threw" /\ setup.by = "Serve"
  /\ setup.serves < MaxServes
  /\ setup' = [setup EXCEPT !.phase = "serve", !.todo = ServeSetup,
                            !.error = "none", !.by = "none",
                            !.calls = <<>>, !.serves = @ + 1]
  /\ UNCHANGED notSetup

SetupNext ==
  \/ \E v \in {-1, 0, 1, O_RDWR, 3, 4} : SetupCall(v)
  \/ ServeCalled

(***************************************************************************)
(* Specifications: one per component harness.  A harness leaves the other  *)
(* components' variables at their idle values.                             *)
(***************************************************************************)
InitBuffer ==
  /\ BufInit /\ ParserIdle /\ RespIdle /\ FdIdle /\ BodyIdle /\ RouteIdle
  /\ ServerIdle /\ SetupIdle
SpecBuffer == InitBuffer /\ [][BufferNext]_vars

InitParser ==
  /\ BufIdle /\ ParserInit /\ RespIdle /\ FdIdle /\ BodyIdle /\ RouteIdle
  /\ ServerIdle /\ SetupIdle
SpecParser == InitParser /\ [][ParserNext]_vars

InitResp ==
  /\ BufIdle /\ RespInit /\ ParserIdle /\ FdIdle /\ BodyIdle /\ RouteIdle
  /\ ServerIdle /\ SetupIdle
SpecResp == InitResp /\ [][RespNext]_vars

InitFd ==
  /\ BufIdle /\ FdInit /\ ParserIdle /\ RespIdle /\ BodyIdle /\ RouteIdle
  /\ ServerIdle /\ SetupIdle
SpecFd == InitFd /\ [][FdNext]_vars

InitBody ==
  /\ BufIdle /\ BodyInit /\ ParserIdle /\ RespIdle /\ FdIdle /\ RouteIdle
  /\ ServerIdle /\ SetupIdle
SpecBody == InitBody /\ [][BodyNext]_vars

SpecEof == InitBody /\ [][EofNext]_vars

InitPipelined ==
  /\ BufIdle /\ BodyInitPipelined /\ ParserIdle /\ RespIdle /\ FdIdle
  /\ RouteIdle /\ ServerIdle /\ SetupIdle
SpecPipelined == InitPipelined /\ [][BodyNext]_vars

\* The loop keeps running: a readiness event that stays pending is handled.
SpecSuspend == InitBody /\ [][SuspendNext]_vars /\ WF_vars(FuncStage)

InitSetup ==
  /\ SetupInit
  /\ BufIdle /\ ParserIdle /\ RespIdle /\ FdIdle /\ BodyIdle /\ RouteIdle
  /\ ServerIdle
SpecSetup == InitSetup /\ [][SetupNext]_vars

InitRoute ==
  /\ BufIdle /\ RouteInit /\ ParserIdle /\ RespIdle /\ FdIdle /\ BodyIdle
  /\ ServerIdle /\ SetupIdle
SpecRoute == InitRoute /\ [][RouteNext]_vars

Init ==
  /\ ServerInit
  /\ BufIdle /\ ParserIdle /\ RespIdle /\ FdIdle /\ BodyIdle /\ RouteIdle
  /\ SetupIdle
Spec == Init /\ [][Next]_vars

InitPair ==
  /\ PairInit
  /\ BufIdle /\ ParserIdle /\ RespIdle /\ FdIdle /\ BodyIdle /\ RouteIdle
  /\ SetupIdle
SpecPair == InitPair /\ [][NextPair]_vars

InitFlood ==
  /\ FloodInit
  /\ BufIdle /\ ParserIdle /\ RespIdle /\ FdIdle /\ BodyIdle /\ RouteIdle
  /\ SetupIdle
SpecFlood == InitFlood /\ [][NextPair]_vars

SpecAccept == InitPair /\ [][NextAccept]_vars

\* The first event of the batch is a connection's.
ConEventPending ==
  /\ serveState = "running"
  /\ conEvents # <<>>
  /\ Head(conEvents).fd # coreSocket

\* The loop thread keeps running: an epoll_wait that has events to report
\* returns, and the first event of the batch is handled (weak fairness of
\* HandleConEvent, with its enabling condition written out).  Nothing is
\* assumed of the clients.
LoopFair ==
  /\ WF_vars(\E batch \in Batches : EpollWait(batch))
  /\ WF_vars(HandleCoreEvent("ok"))
  /\ <>[]ConEventPending =>
       []<><<\E order \in UNION {SerializationOrders(e) : e \in
                                {conEvents[i] : i \in DOMAIN conEvents}} :
               HandleConEvent(order)>>_vars

InitLife ==
  /\ LifeInit
  /\ BufIdle /\ ParserIdle /\ RespIdle /\ FdIdle /\ BodyIdle /\ RouteIdle
  /\ SetupIdle
SpecLife == InitLife /\ [][NextLife]_vars

\* One client, Kill never called, the loop thread scheduled fairly.
SpecWrite == InitLife /\ [][NextPair]_vars /\ LoopFair

(***************************************************************************)
(* Claims                                                                  *)
(***************************************************************************)
\* The number of responses that begin in a byte string: the places where a
\* status line starts.
ResponsesIn(bytes) ==
  LET start == StrHTTP11 \o <<" ">>
  IN  Cardinality({i \in 1..(Len(bytes) - Len(start) + 1) :
                     SubSeq(bytes, i, i + Len(start) - 1) = start})

\* The client has sent its whole plan, the server has read every byte of it
\* and has no event left to handle; neither side has closed and Kill has not
\* been called.
Settled(c) ==
  /\ serveState = "running"
  /\ trace.kill = "no"
  /\ conEvents = <<>>
  /\ cPlan[c].segments = <<>>
  /\ kSock[c].cond = "open"
  /\ kSock[c].fd # InvalidFd
  /\ kSock[c].rx = <<>>

\* C1: when a client has sent N >= 1 well-formed requests on a connection and
\* the server has read them all and is back at stage REQ with nothing left to
\* handle, N responses have been sent on that connection, which is still in
\* the connection map.
C1_KeepAlive ==
  \A c \in Clients :
    (Settled(c) /\ cPlan[c].requests >= 1) =>
      /\ kSock[c].fd \in DOMAIN conStateMap
      /\ conStateMap[kSock[c].fd].stage = REQ =>
           ResponsesIn(kSock[c].sent) = cPlan[c].requests

\* C2: after ProcessFunction, a request whose path is not in the route table
\* has a 404 Not Found response and stage RES; one whose path is present but
\* whose method is not registered has 405 Method Not Allowed and stage RES;
\* the registered handler is invoked exactly when both are present; no failed
\* lookup is dereferenced.
C2_Routing ==
  fCall.done =>
    LET path == fState.request.path
        type == fState.request.type
        pathPresent == path \in DOMAIN fRouteMap
        methodPresent == pathPresent /\ type \in DOMAIN fRouteMap[path]
    IN  /\ fCall.outcome = "returned"
        /\ ~fCall.endDeref
        /\ ~pathPresent =>
             /\ fState.response.statusCode = 404
             /\ fState.response.statusReason = StrNotFound
             /\ fState.stage = RES
        /\ (pathPresent /\ ~methodPresent) =>
             /\ fState.response.statusCode = 405
             /\ fState.response.statusReason = StrMethodNotAllowed
             /\ fState.stage = RES
        /\ methodPresent => fCall.invoked = fRouteMap[path][type]
        /\ ~methodPresent => fCall.invoked = NoHandler

\* C3: once a loop iteration that began after Kill() returned, and in which
\* the kernel reported the hangup of the listening descriptor, has ended,
\* Serve has returned.
C3_KillStopsServe ==
  trace.hangupIterationEnded => serveState = "returned"

\* C4: a ProcessResponse call in which send took the last byte of the outbound
\* buffer finishes the response: it returns false (the connection is erased)
\* if the request's Connection header is "close", and otherwise leaves the
\* connection at stage REQ with the same descriptor.
C4_ResponseCompletion ==
  (trace.lastCall.op = "ProcessResponse" /\ trace.lastCall.acceptedLast) =>
    IF trace.lastCall.close
      THEN /\ ~trace.lastCall.ret
           /\ trace.lastCall.fd \notin DOMAIN conStateMap
      ELSE /\ trace.lastCall.ret
           /\ trace.lastCall.fd \in DOMAIN conStateMap
           /\ conStateMap[trace.lastCall.fd].stage = REQ
           /\ conStateMap[trace.lastCall.fd].fd = trace.lastCall.fd

\* C5: when ProcessRequest has met a parser error or a header block over the
\* limit, the connection is still in the connection map at stage RES, its
\* response is 400 Bad Request with the error text as body, and Serve is
\* still running.
C5_BadRequestRecovered ==
  (trace.lastCall.op = "ProcessRequest" /\ trace.lastCall.raised) =>
    /\ serveState = "running"
    /\ trace.lastCall.ret
    /\ trace.lastCall.what \in {ExpectedSpaceError("b"), StrHeaderTooLarge}
    /\ trace.lastCall.fd \in DOMAIN conStateMap
    /\ LET state == conStateMap[trace.lastCall.fd]
       IN  /\ state.stage = RES
           /\ state.response.statusCode = 400
           /\ state.response.statusReason = StrBadRequest
           /\ state.response.body = trace.lastCall.what
           /\ state.fd = trace.lastCall.fd

\* ProcessRequest has just turned a colon without a space into a 400.
C5_Witness ==
  /\ trace.lastCall.op = "ProcessRequest"
  /\ trace.lastCall.raised
  /\ trace.lastCall.what = ExpectedSpaceError("b")
  /\ trace.lastCall.fd \in DOMAIN conStateMap
  /\ conStateMap[trace.lastCall.fd].stage = RES

\* What a caller can observe of a parse: the request, the cursors, the outcome.
Observable(buffer, request, raised) ==
  [request |-> request, headCursor |-> buffer.headCursor,
   rollbackCursor |-> buffer.rollbackCursor, raised |-> raised]

OneShot(B) == ParseAppended(NewBuffer, NewRequest, B)

ParserDone == pCalls > 0 /\ (pRest = <<>> \/ pRaised)

\* C6: once every chunk of B has been appended (the parser called after each
\* append), the request, the cursors and the raised/not-raised outcome are
\* those of appending all of B at once and calling the parser once.
C6_ChunkedEqualsOneShot ==
  ParserDone =>
    LET o == OneShot(pInput)
    IN  Observable(pBuffer, pRequest, pRaised)
          = Observable(o.buffer, o.request, o.raised)

\* C7: once the server has read a request whose header block is exactly
\* maxHeaderSize bytes long the connection has not been failed; once it has
\* read one whose header block is maxHeaderSize + 1 bytes long the connection
\* is at stage RES with a 400 response.
C7_HeaderSizeBoundary ==
  \A c \in Clients :
    (Settled(c) /\ cPlan[c].name = "large"
       /\ kSock[c].fd \in DOMAIN conStateMap) =>
      LET state == conStateMap[kSock[c].fd]
      IN  /\ cPlan[c].blockLen = maxHeaderSize =>
               state.response.statusCode # 400
          /\ cPlan[c].blockLen = maxHeaderSize + 1 =>
               /\ state.stage = RES
               /\ state.response.statusCode = 400

\* C8: over a socket that delivers exactly the N body bytes, the reads return
\* those bytes in arrival order and never fail; each finished read(k) returned
\* min(k, remaining) bytes; the remaining size is never negative; a read issued
\* when nothing remains returns empty without receiving from the socket.
C8_BodyDelivered ==
  /\ bPc # "failed"
  /\ bReader.bodySize >= 0
  /\ bReturned = SubSeq(Body, 1, Len(bReturned))
  /\ Len(bReturned) + bReader.bodySize = Len(Body)
  /\ bLast.done =>
       /\ Len(bLast.slice) = Min(bLast.k, bLast.before)
       /\ bLast.before = 0 => bLast.recvs = 0

\* C9: when a response is serialized its Content-Length header is present and
\* is the decimal length of its body, whatever mutator calls came before.
C9_ContentLengthAtSerialization ==
  rSerialized =>
    /\ StrContentLength \in DOMAIN rResponse.headers
    /\ rResponse.headers[StrContentLength] = to_string(Len(rResponse.body))

\* C10: every descriptor ever placed in a handle is closed exactly once: never
\* closed twice (no close() on a number that names no open descriptor), never
\* leaked (an open descriptor is held by exactly one live handle); a
\* moved-from handle holds -1; a close() with argument -1 closes nothing.
C10_ClosedExactlyOnce ==
  /\ os.ebadf = 0
  /\ \A d \in DOMAIN os.closed : os.closed[d] <= 1
  /\ \A n \in DOMAIN os.open :
       /\ os.closed[os.open[n]] = 0
       /\ Cardinality({h \in Slots : Live(h) /\ handles[h].fd = n}) = 1
  /\ \A d \in DOMAIN os.closed :
       (\A n \in DOMAIN os.open : os.open[n] # d) => os.closed[d] = 1
  /\ \A h \in Slots :
       /\ Live(h) => handles[h].fd \in (DOMAIN os.open) \cup {InvalidFd}
       /\ (Live(h) /\ handles[h].movedFrom) => handles[h].fd = InvalidFd

\* Every slot has held a handle and been destroyed, one of them moved from;
\* two descriptors were made and each has been closed once.
C10_Witness ==
  /\ \A h \in Slots : handles[h].state = "dead"
  /\ \E h \in Slots : handles[h].movedFrom
  /\ os.made >= 2
  /\ DOMAIN os.open = {}
  /\ \A d \in DOMAIN os.closed : os.closed[d] = 1

\* C11: after every operation of the Buffer interface, in any order and with
\* any argument, 0 <= rollbackCursor <= headCursor <= length of the buffer.
C11_CursorOrder ==
  /\ 0 <= uBuffer.rollbackCursor
  /\ uBuffer.rollbackCursor <= uBuffer.headCursor
  /\ uBuffer.headCursor <= Len(uBuffer.buffer)

\* The loop handles the first event of the batch in this step.
EventHandled ==
  /\ serveState = "running"
  /\ conEvents # <<>>
  /\ conEvents' = Tail(conEvents)

\* The event is of a connection in the map and meets a transport failure: it
\* is flagged error or hangup, or the recv (stage REQ) or send (stage RES) it
\* leads to fails on a reset connection.
TransportFailure(e) ==
  /\ e.fd # coreSocket
  /\ e.fd \in DOMAIN conStateMap
  /\ \/ e.events \cap {EPOLLERR, EPOLLHUP} # {}
     \/ /\ EPOLLIN \in e.events
        /\ conStateMap[e.fd].stage \in {REQ, RES}
        /\ kSock[ClientOf(e.fd)].cond = "rst"

\* The step erases the entry of fd and closes its descriptor, and nothing else.
Contained(fd) ==
  /\ conStateMap' = [k \in (DOMAIN conStateMap) \ {fd} |-> conStateMap[k]]
  /\ fd \in DOMAIN kOs.open
  /\ DOMAIN kOs'.open = (DOMAIN kOs.open) \ {fd}
  /\ kOs'.closed[kOs.open[fd]] = 1
  /\ kOs'.ebadf = kOs.ebadf
  /\ \A c \in Clients : c # ClientOf(fd) => kSock'[c] = kSock[c]
  /\ serveState' = "running"

\* C12: when the loop handles an event of a connection that is flagged error
\* or hangup, or whose recv or send fails with an error other than
\* would-block, it erases exactly that connection's entry and closes its
\* descriptor, leaves every other connection as it was, and Serve goes on
\* running.
C12_TransportFailureContained ==
  [][(EventHandled /\ TransportFailure(Head(conEvents)))
       => Contained(Head(conEvents).fd)]_vars

\* A connection that had received part of a header block has just been erased
\* on a hangup, another connection is still in the map with its 400 response,
\* and Serve is running.
C12_Witness ==
  /\ serveState = "running"
  /\ trace.lastCall.op = "erase"
  /\ trace.lastCall.stage = REQ
  /\ trace.lastCall.received \in 1..(Len(ReqNoHeaders) - 1)
  /\ trace.lastCall.fd \notin DOMAIN conStateMap
  /\ trace.lastCall.fd \notin DOMAIN kOs.open
  /\ \E fd \in DOMAIN conStateMap :
       /\ conStateMap[fd].stage = RES
       /\ fd \in DOMAIN kOs.open

\* C13: on a connection whose client sends two requests one after the other,
\* the parser has read a byte of the second request (the head cursor of the
\* parse buffer is at or past the first byte after the first request) only if
\* the whole response to the first request has been sent.
C13_RequestsSerialized ==
  \A c \in Clients :
    (cPlan[c].name = "keep-alive" /\ kSock[c].fd \in DOMAIN conStateMap) =>
      LET state == conStateMap[kSock[c].fd]
      IN  BufSizeBeforeCursor(state.reqBuffer) >= cPlan[c].blockLen =>
            /\ ResponsesIn(kSock[c].sent) >= 1
            /\ BufEmpty(state.resBuffer)

\* C14: while a response is being sent on a connection, the bytes the kernel
\* has accepted on it are a prefix of the serialized response: each byte is
\* sent in order and none twice.
C14_SentIsPrefix ==
  \A c \in Clients :
    (kSock[c].fd \in DOMAIN conStateMap
       /\ ~BufEmpty(conStateMap[kSock[c].fd].resBuffer)) =>
      LET serialized == conStateMap[kSock[c].fd].resBuffer.buffer
          sent == kSock[c].sent
      IN  /\ Len(sent) <= Len(serialized)
          /\ sent = SubSeq(serialized, 1, Len(sent))

\* The loop handles, in this step, an event that carries the number of the
\* listening descriptor.
ListeningEventHandled ==
  /\ serveState = "running"
  /\ conEvents # <<>>
  /\ conEvents' # conEvents
  /\ Head(conEvents).fd = kListen.number

\* What the step does with the event: throw on error, return on hangup alone,
\* otherwise accept (the first connection of the queue, if the listening
\* socket is open) and leave every existing connection as it was.
ListeningEventOutcome ==
  LET events == Head(conEvents).events
  IN  IF EPOLLERR \in events
        THEN serveState' = "threw" /\ kListen' = kListen
      ELSE IF EPOLLHUP \in events
        THEN serveState' = "returned" /\ kListen' = kListen
      ELSE /\ serveState' = "running"
           /\ (kListen.open /\ kListen.backlog # <<>>) =>
                kListen'.backlog = Tail(kListen.backlog)
           /\ \A fd \in DOMAIN conStateMap :
                /\ fd \in DOMAIN conStateMap'
                /\ conStateMap'[fd] = conStateMap[fd]

\* C15: an event on the listening descriptor makes Serve throw if error is
\* flagged (with or without hangup), return if only hangup is flagged, and
\* otherwise call accept; an existing connection's state is not modified.
C15_ListeningEvent ==
  [][ListeningEventHandled => ListeningEventOutcome]_vars

\* C16: once Serve has been left, by return or by throw, the connection map is
\* gone, every descriptor its entries held and the epoll descriptor are
\* closed, each closed once, and no descriptor but the listening one is open.
C16_ClosedAtExit ==
  serveState \in {"returned", "threw"} =>
    /\ trace.exit.left
    /\ conStateMap = <<>>
    /\ \A fd \in trace.exit.held : fd \notin DOMAIN kOs.open
    /\ kListen.epoll \notin DOMAIN kOs.open
    /\ DOMAIN kOs.open \subseteq {kListen.number}
    /\ \A c \in Clients : kSock[c].fd = InvalidFd
    /\ \A d \in DOMAIN kOs.closed : kOs.closed[d] <= 1
    /\ kOs.ebadf = 0

\* Serve has thrown while its map held a connection; the connection's
\* descriptor and the epoll descriptor are closed.
C16_Witness ==
  /\ serveState = "threw"
  /\ trace.exit.held # {}
  /\ \A fd \in trace.exit.held : fd \notin DOMAIN kOs.open
  /\ kListen.epoll \notin DOMAIN kOs.open
  /\ \E c \in Clients : kSock[c].cond = "closed"

\* C17: no call of ProcessRequest or ProcessResponse keeps the loop: Serve is
\* never inside a handler call that makes socket calls without end.
C17_HandlersReturn == serveState # "spinning"

\* C18: whenever the loop thread is about to read the number of the listening
\* handle (it has an event to handle), getfd() gives the number of an open
\* descriptor or -1: never the old number of a descriptor Kill has closed.
C18_CloseIsAtomic ==
  (serveState = "running" /\ conEvents # <<>>) =>
    \/ coreSocket = InvalidFd
    \/ coreSocket \in DOMAIN kOs.open

\* C19: a handler whose body reader's receive fails with an error other than
\* would-block ends abnormally without ending the process: the read never
\* terminates the program.
C19_HandlerFailureContained == bPc # "terminated"

\* What Kill and the destructor can touch, and what Serve does with it.
ServerState ==
  <<coreSocket, kOs, kListen, kSock, conStateMap, conEvents, serveState>>

\* C20: a Kill call that follows a finished Kill call changes nothing: neither
\* of its two steps changes the handle, the descriptor table, the sockets or
\* the state of Serve, so what follows is what follows a single call; the
\* destruction of the Server after a Kill closes no descriptor either.
C20_KillIdempotent ==
  [][/\ (trace.kills >= 1 /\ trace'.kill # trace.kill) =>
          ServerState' = ServerState
     /\ (trace.kills >= 1 /\ trace'.destroyed /\ ~trace.destroyed) =>
          ServerState' = ServerState]_vars

\* Kill has been called twice and the Server destroyed after Serve returned:
\* every descriptor has been closed once and none is open.
C20_Witness ==
  /\ trace.kills = 2
  /\ trace.kill = "done"
  /\ trace.destroyed
  /\ serveState = "returned"
  /\ coreSocket = InvalidFd
  /\ DOMAIN kOs.open = {}
  /\ \A d \in DOMAIN kOs.closed : kOs.closed[d] = 1
  /\ kOs.ebadf = 0

\* The listening event handled in this step is flagged neither error nor
\* hangup: the loop calls accept.
AcceptCalled ==
  /\ ListeningEventHandled
  /\ Head(conEvents).fd = coreSocket
  /\ Head(conEvents).events \cap {EPOLLERR, EPOLLHUP} = {}

\* Every descriptor ever made is open or has been closed once, and no close()
\* named a number that was not open.
NoneLeaked(o) ==
  /\ o.ebadf = 0
  /\ \A d \in DOMAIN o.closed :
       o.closed[d] = IF \E n \in DOMAIN o.open : o.open[n] = d THEN 0 ELSE 1

\* C21: handling a listening-socket event adds an entry to the connection map
\* only if accept returned a new descriptor and its registration succeeded
\* (the entry is a fresh state at stage REQ under that descriptor); if accept
\* gave would-block or failed, or the registration failed, the map is
\* unchanged, the set of open descriptors is what it was (a descriptor that
\* could not be registered has been closed, once) and Serve goes on running.
C21_AcceptFrame ==
  [][AcceptCalled =>
       /\ serveState' = "running"
       /\ trace'.lastCall.op = "accept"
       /\ NoneLeaked(kOs) => NoneLeaked(kOs')
       /\ IF trace'.lastCall.fd > 0 /\ trace'.lastCall.ret
            THEN /\ trace'.lastCall.fd \notin DOMAIN conStateMap
                 /\ conStateMap' =
                      MapSet(conStateMap, trace'.lastCall.fd,
                             NewConnectionState(trace'.lastCall.fd))
                 /\ DOMAIN kOs'.open =
                      (DOMAIN kOs.open) \cup {trace'.lastCall.fd}
            ELSE /\ conStateMap' = conStateMap
                 /\ DOMAIN kOs'.open = DOMAIN kOs.open]_vars

\* accept has given a descriptor whose registration failed: it is closed and
\* not in the map, its client sees the connection closed, another connection
\* is still in the map and Serve is running.
C21_Witness ==
  /\ serveState = "running"
  /\ trace.lastCall.op = "accept"
  /\ trace.lastCall.fd > 0
  /\ ~trace.lastCall.ret
  /\ trace.lastCall.fd \notin DOMAIN conStateMap
  /\ trace.lastCall.fd \notin DOMAIN kOs.open
  /\ kOs.made = 4
  /\ \E c \in Clients : kSock[c].cond = "closed"
  /\ conStateMap # <<>>

\* The system calls the set-up is said to check.
SetupCalls ==
  {"socket", "bind", "SO_REUSEADDR", "SO_RCVBUF", "SO_SNDBUF", "F_GETFL",
   "F_SETFL", "listen", "epoll_create1", "epoll_ctl"}

\* C22: a set-up system call that failed (returned -1) in the constructor or
\* in a Serve call is the last call that constructor or Serve call made, and
\* it has thrown a runtime_error: no set-up step follows a failed one.
C22_SetupFailureSurfaced ==
  \A i \in DOMAIN setup.calls :
    (setup.calls[i].name \in SetupCalls /\ setup.calls[i].value < 0) =>
      /\ i = Len(setup.calls)
      /\ setup.phase = "threw"
      /\ setup.error = "runtime_error"

\* The connection of client c1 is in the map at stage RES, open, and its
\* socket is writable.
ResponseWaits ==
  /\ serveState = "running"
  /\ kSock["c1"].cond = "open"
  /\ kSock["c1"].fd \in DOMAIN conStateMap
  /\ conStateMap[kSock["c1"].fd].stage = RES
  /\ EPOLLOUT \in SockEvents(kSock["c1"])

\* C23: with the loop scheduled fairly, a connection put into stage RES whose
\* socket is writable gets response bytes sent (or is closed), whether or not
\* the client sends another byte.
C23_ResponseWritten ==
  ResponseWaits ~>
    \/ kSock["c1"].sent # <<>>
    \/ kSock["c1"].fd \notin DOMAIN conStateMap
    \/ kSock["c1"].cond # "open"

\* C24: once the parser has consumed the blank line that ends the header block
\* of a well-formed request (the head cursor of the parse buffer is on the
\* block's last byte or beyond), the connection is no longer at stage REQ
\* with that request: it is at stage FUNC, or further (RES, or back at REQ
\* with a fresh state after the response).
C24_HeadersCompleteLeaveReq ==
  \A c \in Clients :
    (cPlan[c].requests >= 1 /\ kSock[c].fd \in DOMAIN conStateMap) =>
      LET state == conStateMap[kSock[c].fd]
      IN  BufSizeBeforeCursor(state.reqBuffer) >= cPlan[c].blockLen - 1 =>
            state.stage # REQ

\* C25: when ProcessFunction has handled a request whose path and method have
\* a registered handler, that handler has been invoked, the stage is RES and
\* the connection's response is the one the handler populated; and whenever a
\* handler call has returned the stage is RES.
C25_HandlerResponseUsed ==
  (fCall.done /\ fCall.outcome = "returned") =>
    LET path == fState.request.path
        type == fState.request.type
    IN  /\ (path \in DOMAIN fRouteMap /\ type \in DOMAIN fRouteMap[path]) =>
             /\ fCall.invoked = fRouteMap[path][type]
             /\ fState.stage = RES
             /\ fState.response = HandlerWrites(fCall.invoked, NewResponse)
        /\ fCall.invoked # NoHandler => fState.stage = RES

\* The event handled in this step is of a connection in the map and carries
\* neither error nor hangup: the loop dispatches on the stage.
StageDispatched ==
  /\ EventHandled
  /\ Head(conEvents).fd # coreSocket
  /\ Head(conEvents).fd \in DOMAIN conStateMap
  /\ Head(conEvents).events \cap {EPOLLERR, EPOLLHUP} = {}

\* C26: in stage REQ the loop calls ProcessRequest exactly when readable
\* readiness is flagged; in stage RES it calls ProcessResponse exactly when
\* writable readiness is flagged; in stage FUNC it calls nothing; an event for
\* which nothing is called leaves the connections as they were.
C26_StageDispatch ==
  [][StageDispatched =>
       LET e == Head(conEvents)
           stage == conStateMap[e.fd].stage
           op == trace'.lastCall.op
       IN  /\ stage = REQ =>
                (op = "ProcessRequest" <=> EPOLLIN \in e.events)
           /\ stage = RES =>
                (op = "ProcessResponse" <=> EPOLLOUT \in e.events)
           /\ stage = FUNC => op = "none"
           /\ op = "none" =>
                /\ conStateMap' = conStateMap
                /\ kSock' = kSock
                /\ kOs' = kOs]_vars

\* C27: once the parser has read the whole of a request with the header lines
\* "A: b" and "B: c", the request's headers are exactly A -> b and B -> c:
\* each value is stored under the bytes before its colon, and both are
\* retrievable.
C27_HeadersStoredUnderKey ==
  (ParserDone /\ pInput = ReqTwoHeaders) =>
    /\ ~pRaised
    /\ DOMAIN pRequest.headers = {<<"A">>, <<"B">>}
    /\ ReqGetHeader(pRequest, <<"A">>) = <<"b">>
    /\ ReqGetHeader(pRequest, <<"B">>) = <<"c">>

\* C28: once the parser has read the whole input, whose first line is
\* "METHOD SP PATH SP VERSION CRLF", the request's method is the bytes before
\* the first space (from the first byte of the buffer), its path the bytes
\* between the first and the second space, its version the bytes from there
\* to the newline without carriage returns.
C28_RequestLineFields ==
  ParserDone =>
    LET sp1 == FirstHit(pInput, 0, {" "})
        sp2 == FirstHit(pInput, sp1 + 1, {" "})
        nl == FirstHit(pInput, sp2 + 1, {"\n"})
    IN  /\ pRequest.type = Slice(pInput, 0, sp1 - 1)
        /\ pRequest.path = Slice(pInput, sp1 + 1, sp2 - 1)
        /\ pRequest.version = StripCR(Slice(pInput, sp2 + 1, nl - 1))

\* The header lines of the claim, for the keys of order.
RECURSIVE WrittenLines(_, _)
WrittenLines(headers, order) ==
  IF order = <<>> THEN <<>>
  ELSE Head(order) \o <<":", " ">> \o headers[Head(order)] \o <<"\r", "\n">>
         \o WrittenLines(headers, Tail(order))

\* Every arrangement of the keys whose value is not empty.
NonEmptyOrders(headers) ==
  LET keys == {k \in DOMAIN headers : headers[k] # <<>>}
  IN  {o \in [1..Cardinality(keys) -> keys] :
         \A i, j \in DOMAIN o : i # j => o[i] # o[j]}

\* C29: once ProcessResponse has been entered, the outbound buffer holds
\* exactly "version SP code SP reason CRLF", one "key: value CRLF" line for
\* every header with a non-empty value (in some order) and none for a header
\* with an empty value, CRLF, the body; its cursors are 0; and it was written
\* once, at the first entry, after the Date header was stamped with the clock
\* of that entry: a later entry neither stamps nor serializes again.
C29_SerializedOnceExactly ==
  rSerialized =>
    /\ StrDate \in DOMAIN rResponse.headers
    /\ rResponse.headers[StrDate] = rEntries[1]
    /\ rBuffer.headCursor = 0
    /\ rBuffer.rollbackCursor = 0
    /\ \E order \in NonEmptyOrders(rResponse.headers) :
         rBuffer.buffer =
           rResponse.version \o <<" ">> \o to_string(rResponse.statusCode)
             \o <<" ">> \o rResponse.statusReason \o <<"\r", "\n">>
             \o WrittenLines(rResponse.headers, order)
             \o <<"\r", "\n">> \o rResponse.body

\* A response with a body and a header of empty value, serialized at the
\* first entry and entered again at a later clock reading.
C29_Witness ==
  /\ rSerialized
  /\ Len(rEntries) = 2
  /\ rEntries[1] # rEntries[2]
  /\ rResponse.body # <<>>
  /\ \E k \in DOMAIN rResponse.headers : rResponse.headers[k] = <<>>

\* C30: a handler suspended in BodyReader::read while body bytes wait at its
\* open connection is eventually resumed by the loop: the resumed read takes
\* the waiting bytes from the socket, or is no longer suspended.
C30_SuspendedHandlerResumed ==
  (bPc = "suspended" /\ bCond = "open" /\ bSock # <<>>)
    ~> (bPc # "suspended" \/ bSock = <<>> \/ bCond # "open")

\* C31: a connection that has not been failed with a 400 holds at most
\* maxHeaderSize plus one receive chunk in its parse buffer, whatever the
\* client sends.
C31_ParseBufferBounded ==
  \A fd \in DOMAIN conStateMap :
    \/ Len(conStateMap[fd].reqBuffer.buffer) <= maxHeaderSize + sockBufferSize
    \/ conStateMap[fd].response.statusCode = 400

\* C32: when a ProcessResponse call has sent the last byte of the 400 response
\* to a request the parser rejected, the connection is no longer in the
\* connection map and its descriptor is closed, whatever the request's
\* Connection header was.
C32_ParserFatalCloses ==
  (/\ trace.lastCall.op = "ProcessResponse"
   /\ trace.lastCall.acceptedLast
   /\ \A c \in Clients : cPlan[c].name \in {"no space", "close"}) =>
    /\ trace.lastCall.fd \notin DOMAIN conStateMap
    /\ trace.lastCall.fd \notin DOMAIN kOs.open

\* C33: after every call of DeserializeRequest that returned without raising,
\* the buffer's head cursor equals its rollback cursor.
C33_CursorsAgreeAfterParse ==
  (pCalls > 0 /\ ~pRaised) =>
    pBuffer.headCursor = pBuffer.rollbackCursor

\* A call that committed a token earlier, read further bytes, ran out of
\* them and rolled back: bytes lie beyond the cursor and more are to come.
C33_Witness ==
  /\ pCalls > 1
  /\ ~pRaised
  /\ pRest # <<>>
  /\ pBuffer.rollbackCursor > 0
  /\ pBuffer.headCursor = pBuffer.rollbackCursor
  /\ pBuffer.headCursor + 1 < Len(pBuffer.buffer)

\* C34: once the parser has consumed (committed at) the delimiter that ends
\* the method, the path or the version, no later call of DeserializeRequest
\* changes that field.
C34_RequestLineParsedOnce ==
  [][LET sp1 == FirstHit(pInput, 0, {" "})
         sp2 == FirstHit(pInput, sp1 + 1, {" "})
         nl == FirstHit(pInput, sp2 + 1, {"\n"})
     IN  pCalls > 0 =>
           /\ pBuffer.rollbackCursor >= sp1 => pRequest'.type = pRequest.type
           /\ pBuffer.rollbackCursor >= sp2 => pRequest'.path = pRequest.path
           /\ pBuffer.rollbackCursor >= nl =>
                pRequest'.version = pRequest.version]_vars

\* C35: on an open connection the body reader has taken no more bytes out of
\* the socket than the body has, and once the body has been read every byte
\* the client sent after it is still in the socket (or not yet arrived).
C35_ReaderStopsAtBody ==
  bCond = "open" =>
    /\ Len(bReturned) + Len(bReader.readBuffer) <= Len(Body)
    /\ bReader.bodySize = 0 => bSock \o bUnsent = Following

\* C36: a read with body bytes outstanding returns, suspends or fails after
\* finitely many receive attempts: it never goes on receiving without end.
C36_ReadAttemptsFinite == bPc # "spinning"

\* C37: every key of the connection map is the descriptor number held by its
\* entry's handle, that number is valid and names an open descriptor, no two
\* entries hold the same descriptor, and the listening descriptor is not a
\* key; the keep-alive reset of an entry would leave it so (the new state
\* holds the same descriptor, which the reset does not close).
C37_MapKeysAreDescriptors ==
  \A k \in DOMAIN conStateMap :
    /\ conStateMap[k].fd = k
    /\ k # InvalidFd
    /\ k \in DOMAIN kOs.open
    /\ k # kListen.number
    /\ k # coreSocket
    /\ \A j \in (DOMAIN conStateMap) \ {k} :
         conStateMap[j].fd # conStateMap[k].fd
    /\ LET reset == ResetState(conStateMap[k])
       IN  /\ reset.state.fd = k
           /\ \A i \in DOMAIN reset.closes : reset.closes[i] # k

\* Two connections are in the map, one of them with its response under way.
C37_Witness ==
  /\ serveState = "running"
  /\ Cardinality(DOMAIN conStateMap) = 2
  /\ \E k \in DOMAIN conStateMap : conStateMap[k].stage = RES

\* The stage changes the claim allows.
StageSteps == {<<REQ, FUNC>>, <<REQ, RES>>, <<FUNC, RES>>, <<RES, REQ>>}

\* C38: a connection enters the map at stage REQ; in every step its stage
\* stays or changes along REQ->FUNC, REQ->RES, FUNC->RES, RES->REQ, the last
\* only in a ProcessResponse call that sent the outbound buffer to its end;
\* and ProcessFunction takes a connection at FUNC nowhere but to RES.
C38_StageOrder ==
  [][\A fd \in DOMAIN conStateMap' :
       IF fd \notin DOMAIN conStateMap
         THEN conStateMap'[fd].stage = REQ
         ELSE /\ \/ conStateMap'[fd].stage = conStateMap[fd].stage
                 \/ <<conStateMap[fd].stage, conStateMap'[fd].stage>>
                      \in StageSteps
              /\ (conStateMap[fd].stage = RES /\ conStateMap'[fd].stage = REQ)
                   => /\ trace'.lastCall.op = "ProcessResponse"
                      /\ trace'.lastCall.fd = fd
                      /\ trace'.lastCall.acceptedLast
              /\ \A ub \in EndDerefOutcomes :
                   ProcessFunction([conStateMap[fd] EXCEPT !.stage = FUNC],
                                   fRouteMap, ub).state.stage
                     \in {FUNC, RES}]_vars

\* A connection made at REQ has been moved to RES by a rejected request and
\* its response has been sent in part.
C38_Witness ==
  \E fd \in DOMAIN conStateMap :
    /\ conStateMap[fd].stage = RES
    /\ trace.lastCall.op = "ProcessResponse"
    /\ trace.lastCall.fd = fd
    /\ conStateMap[fd].resBuffer.headCursor > 0

====
